---- MODULE Spec2Model ----
(***************************************************************************)
(* The analysis server of llm_server/server.py as a state machine: the     *)
(* process-wide ServerState, the /analyze handler cut at its suspension    *)
(* points (every await of an HTTP call to the Ollama backend), the         *)
(* start-up and periodic health probe, and the backend as a source of      *)
(* nondeterministic replies.  SpecWarm starts the server with a full       *)
(* cache, SpecLog follows the background task that logs each answer,       *)
(* SpecRecovery lets the periodic probe run for ever while the backend     *)
(* comes back, and SpecKeys sends bodies whose cache keys coincide.        *)
(* SpecHeuristic runs create_fallback_analysis on its own over a           *)
(* set of texts, and SpecFocus runs the focus classifier of                *)
(* llm_server/focused_mock_server.py under the evaluator of                *)
(* llm_server/focused_evaluation.py.  SpecRun is a whole run of that       *)
(* evaluator with its aggregates, and SpecBatch the batched run of the     *)
(* evaluator of llm_server/evaluation.py.                                  *)
(*                                                                         *)
(* Texts, application names and model ids are strings; Len, \o and SubSeq  *)
(* act on them character by character.  Floats are fixed point: a          *)
(* productivity score is counted in tenths (8.0 is 80) and a confidence    *)
(* in hundredths (0.3 is 30).                                              *)
(***************************************************************************)
EXTENDS Integers, Sequences, FiniteSets, TLC

(***************************************************************************)
(* Bounds of the model                                                     *)
(***************************************************************************)
NumRequests == 2
MaxProbes == 1
MaxTokens == 3
RunLength == 3
NumTests == 4
Parallel == 2
MaxClock == 3
TicksPerSecond == 2

(***************************************************************************)
(* Program constants                                                       *)
(***************************************************************************)
MinTextLen == 10
KeyPrefixLen == 100
CacheMax == 100
EvictBatch == 10
MinWordLen == 4
MaxKeyActivities == 5
ScoreMax == 100
ScoreMin == 0
DefaultScore == 50
ConfMax == 100
ConfMin == 0
DefaultConfidence == 50
FallbackConfidence == 30
HeuristicSentinel == "heuristic"
DistractedConfidence == 85
RelatedConfidence == 88
ManyWorkConfidence == 72
SomeWorkConfidence == 55
NoWorkConfidence == 65
ManyWork == 3
SomeWork == 1
JitterMax == 10
JitterFloor == 10
JitterCeiling == 95
AccuracyWeight == 6
CalibrationWeight == 4
WeightScale == 10
ScoreScale == 100
DefaultSummary == "Activity analysis completed"
DefaultCategory == "Other"

(***************************************************************************)
(* Strings                                                                 *)
(***************************************************************************)
Char(s, i) == SubSeq(s, i, i)

Whitespace == {" ", "\t", "\n", "\r"}

UpperAlpha == "ABCDEFGHIJKLMNOPQRSTUVWXYZ"
LowerAlpha == "abcdefghijklmnopqrstuvwxyz"

LowerChar(c) ==
    IF \E i \in 1..Len(UpperAlpha) : Char(UpperAlpha, i) = c
    THEN Char(LowerAlpha, CHOOSE i \in 1..Len(UpperAlpha) : Char(UpperAlpha, i) = c)
    ELSE c

\* the recursions on a string halve it, which keeps them shallow on long texts
RECURSIVE Lower(_)
Lower(s) ==
    IF Len(s) = 0 THEN ""
    ELSE IF Len(s) = 1 THEN LowerChar(s)
    ELSE Lower(SubSeq(s, 1, Len(s) \div 2)) \o Lower(SubSeq(s, Len(s) \div 2 + 1, Len(s)))

NonBlank(s) == {i \in 1..Len(s) : Char(s, i) \notin Whitespace}

Least(S) == CHOOSE i \in S : \A j \in S : i <= j
Greatest(S) == CHOOSE i \in S : \A j \in S : j <= i

\* str.strip(): without the leading and the trailing whitespace
Strip(s) ==
    LET solid == NonBlank(s)
    IN  IF solid = {} THEN "" ELSE SubSeq(s, Least(solid), Greatest(solid))

Contains(s, kw) ==
    \E i \in 1..(Len(s) - Len(kw) + 1) : SubSeq(s, i, i + Len(kw) - 1) = kw

Prefix(s, n) == IF Len(s) <= n THEN s ELSE SubSeq(s, 1, n)

RECURSIVE Pad(_, _)
Pad(c, n) ==
    IF n = 0 THEN ""
    ELSE IF n = 1 THEN c
    ELSE Pad(c, n \div 2) \o Pad(c, n - n \div 2)

\* str.split(): the maximal runs of non-whitespace characters, in order
Split(s) ==
    LET solid == NonBlank(s)
        starts == {i \in solid : (i - 1) \notin solid}
        ends == {j \in solid : (j + 1) \notin solid}
    IN  [k \in 1..Cardinality(starts) |->
            LET start == CHOOSE i \in starts : Cardinality({j \in starts : j < i}) = k - 1
            IN  SubSeq(s, start, Least({j \in ends : j >= start}))]

InSeq(x, seq) == \E i \in 1..Len(seq) : seq[i] = x

(***************************************************************************)
(* JSON values as the handler's duck typing sees them.  A field value is   *)
(* absent, a number, a string or a list of strings; an analysis is a JSON  *)
(* value of some shape, and only the "object" shape has fields.            *)
(***************************************************************************)
Absent == [t |-> "absent", n |-> 0, s |-> "", l |-> <<>>]
Num(x) == [t |-> "num", n |-> x, s |-> "", l |-> <<>>]
Str(x) == [t |-> "str", n |-> 0, s |-> x, l |-> <<>>]
List(x) == [t |-> "list", n |-> 0, s |-> "", l |-> x]

EmptyObject ==
    [shape |-> "object", summary |-> Absent, category |-> Absent,
     productivity_score |-> Absent, key_activities |-> Absent,
     suggestions |-> Absent, confidence |-> Absent]

NonObject(shape) == [EmptyObject EXCEPT !.shape = shape]

\* dict.get(key, default) on a field already selected
Get(field, default) == IF field.t = "absent" THEN default ELSE field

(***************************************************************************)
(* create_fallback_analysis: the keyword heuristic                         *)
(***************************************************************************)
KeywordTable ==
    << [kws |-> {"code", "function", "class", "import", "def", "var", "const"},
        category |-> "Programming", score |-> 80],
       [kws |-> {"email", "message", "chat", "slack", "teams"},
        category |-> "Communication", score |-> 60],
       [kws |-> {"google", "search", "stackoverflow", "documentation"},
        category |-> "Research", score |-> 70],
       [kws |-> {"document", "report", "presentation", "slides"},
        category |-> "Documentation", score |-> 75],
       [kws |-> {"design", "figma", "sketch", "photoshop"},
        category |-> "Design", score |-> 80],
       [kws |-> {"video", "youtube", "netflix", "spotify"},
        category |-> "Media", score |-> 30] >>

RowMatches(row, text_lower) == \E kw \in row.kws : Contains(text_lower, kw)

\* the chain replaced by a vote: the row with the most keywords in the text,
\* the earlier row on a tie
DetectCategoryBestMatch(text) ==
    LET text_lower == Lower(text)
        Count(i) == Cardinality({kw \in KeywordTable[i].kws : Contains(text_lower, kw)})
        hits == {i \in 1..Len(KeywordTable) : Count(i) > 0}
    IN  IF hits = {}
        THEN [category |-> DefaultCategory, score |-> DefaultScore]
        ELSE LET best == CHOOSE i \in hits :
                            /\ \A j \in hits : Count(j) <= Count(i)
                            /\ \A j \in hits : j < i => Count(j) < Count(i)
             IN  [category |-> KeywordTable[best].category,
                  score |-> KeywordTable[best].score]

\* the if/elif chain: the first row of the table with a keyword in the text
DetectCategory(text) ==
    LET text_lower == Lower(text)
        hits == {i \in 1..Len(KeywordTable) : RowMatches(KeywordTable[i], text_lower)}
    IN  IF hits = {}
        THEN [category |-> DefaultCategory, score |-> DefaultScore]
        ELSE LET first == CHOOSE i \in hits : \A j \in hits : i <= j
             IN  [category |-> KeywordTable[first].category,
                  score |-> KeywordTable[first].score]

\* the lower-cased words longer than MinWordLen, one per occurrence
RECURSIVE LongWords(_)
LongWords(words) ==
    IF words = <<>> THEN <<>>
    ELSE (IF Len(Head(words)) > MinWordLen THEN <<Lower(Head(words))>> ELSE <<>>)
         \o LongWords(Tail(words))

\* the keys of word_freq, in the order a dict keeps them: first insertion
RECURSIVE DictKeys(_, _)
DictKeys(words, seen) ==
    IF words = <<>> THEN seen
    ELSE DictKeys(Tail(words),
                  IF InSeq(Head(words), seen) THEN seen ELSE Append(seen, Head(words)))

Frequency(w, words) == Cardinality({i \in 1..Len(words) : words[i] = w})

RemoveAt(seq, i) == SubSeq(seq, 1, i - 1) \o SubSeq(seq, i + 1, Len(seq))

\* sorted(..., key = frequency, reverse = True): stable, so ties keep dict order
RECURSIVE SortByFrequency(_, _)
SortByFrequency(keys, words) ==
    IF keys = <<>> THEN <<>>
    ELSE LET best == CHOOSE i \in 1..Len(keys) :
                        /\ \A j \in 1..Len(keys) :
                              Frequency(keys[j], words) <= Frequency(keys[i], words)
                        /\ \A j \in 1..(i - 1) :
                              Frequency(keys[j], words) < Frequency(keys[i], words)
         IN  <<keys[best]>> \o SortByFrequency(RemoveAt(keys, best), words)

ExtractKeyActivities(text) ==
    LET words == LongWords(Split(text))
        ranked == SortByFrequency(DictKeys(words, <<>>), words)
    IN  SubSeq(ranked, 1, IF Len(ranked) < MaxKeyActivities THEN Len(ranked) ELSE MaxKeyActivities)

create_fallback_analysis(text, app_name) ==
    LET detected == DetectCategory(text)
        key_activities == ExtractKeyActivities(text)
    IN  [shape |-> "object",
         summary |-> Str("User was engaged in " \o Lower(detected.category)
                         \o " activities in " \o app_name),
         category |-> Str(detected.category),
         productivity_score |-> Num(detected.score),
         key_activities |-> List(IF key_activities = <<>>
                                 THEN <<"general activity">> ELSE key_activities),
         suggestions |-> List(<<"Consider using AI analysis for better insights">>),
         confidence |-> Num(FallbackConfidence)]

(***************************************************************************)
(* Inputs: the bodies of POST /analyze.  The long texts agree on their     *)
(* first KeyPrefixLen characters and differ after them.                    *)
(***************************************************************************)
LongText(last) == "def main()" \o Pad("a", KeyPrefixLen - 10) \o last

Inputs ==
    {[text |-> "", app_name |-> "Test", model |-> "m1"],
     [text |-> "Hi", app_name |-> "Test", model |-> "m1"],
     [text |-> "  def main \n ", app_name |-> "Xcode", model |-> "m1"],
     [text |-> "def main()", app_name |-> "Xcode", model |-> "m2"],
     [text |-> LongText("x"), app_name |-> "Xcode", model |-> "m1"],
     [text |-> LongText("y"), app_name |-> "Xcode", model |-> "m1"]}

Digit(d) == Char("0123456789", d + 1)

\* the i-th of the requests that filled the cache
FillerInput(i) ==
    [text |-> "filler " \o Digit(i \div 100) \o Digit((i \div 10) % 10) \o Digit(i % 10),
     app_name |-> "Notes", model |-> "m1"]

\* the bodies sent to the service whose cache is full: the first filler again
WarmInputs == Inputs \cup {FillerInput(1)}

\* bodies whose text prefix, application name and model differ while the
\* underscores of the cache key fall alike, and two that share a prefix
KeyInputs ==
    {[text |-> "def main()_a", app_name |-> "b", model |-> "m1"],
     [text |-> "def main()", app_name |-> "a_b", model |-> "m1"],
     [text |-> LongText("x"), app_name |-> "Xcode", model |-> "m1"],
     [text |-> LongText("y"), app_name |-> "Xcode", model |-> "m1"]}

\* create_fallback_analysis on the inputs, evaluated once
FallbackOfInput ==
    [p \in {<<input.text, input.app_name>> : input \in WarmInputs \cup KeyInputs} |->
        create_fallback_analysis(p[1], p[2])]

\* a fallback that trusts itself less after a failed backend call
FallbackForAfterFailure(rq) ==
    IF rq.generated
    THEN [FallbackOfInput[<<rq.text, rq.app_name>>] EXCEPT !.confidence = Num(ConfMin)]
    ELSE FallbackOfInput[<<rq.text, rq.app_name>>]

\* a fallback that claims more confidence than a result may carry
FallbackForOverconfident(rq) ==
    [FallbackOfInput[<<rq.text, rq.app_name>>] EXCEPT !.confidence = Num(ConfMax + 1)]

\* what /analyze passes on: the request's text and its context's app_name
FallbackFor(rq) == FallbackOfInput[<<rq.text, rq.app_name>>]

(***************************************************************************)
(* The backend's replies.  An HTTP call ends in a timeout, in another      *)
(* exception (connection refused, ...) or in a response with a status and  *)
(* a body; response.json() fails on a body that is not JSON, and the       *)
(* handlers call .get() on what it returns.                                *)
(***************************************************************************)
Raised(kind) == [kind |-> kind, status |-> 0, json |-> "none", field |-> Absent]
Response(status, json, field) ==
    [kind |-> "http", status |-> status, json |-> json, field |-> field]

\* json.loads on the texts the backend is taken to send in "response";
\* every other text is not JSON
JsonTable ==
    << [text |-> "{\"summary\":\"Writing code\",\"category\":\"Programming\",\"productivity_score\":7.5,\"key_activities\":[\"coding\"],\"confidence\":0.85}",
        value |-> [shape |-> "object", summary |-> Str("Writing code"),
                   category |-> Str("Programming"), productivity_score |-> Num(75),
                   key_activities |-> List(<<"coding">>), suggestions |-> Absent,
                   confidence |-> Num(85)]],
       [text |-> "{\"category\":\"Gaming\",\"productivity_score\":15,\"confidence\":1.0}",
        value |-> [EmptyObject EXCEPT !.category = Str("Gaming"),
                                      !.productivity_score = Num(150),
                                      !.confidence = Num(100)]],
       [text |-> "{\"productivity_score\":-3,\"confidence\":0.0}",
        value |-> [EmptyObject EXCEPT !.productivity_score = Num(-30),
                                      !.confidence = Num(0)]],
       [text |-> "{\"confidence\":1.5}",
        value |-> [EmptyObject EXCEPT !.confidence = Num(150)]],
       [text |-> "{\"productivity_score\":\"high\",\"key_activities\":\"none\"}",
        value |-> [EmptyObject EXCEPT !.productivity_score = Str("high"),
                                      !.key_activities = Str("none")]],
       [text |-> "{}", value |-> EmptyObject],
       [text |-> "[]", value |-> NonObject("array")] >>

JsonLoads(text) ==
    IF \E i \in 1..Len(JsonTable) : JsonTable[i].text = text
    THEN [ok |-> TRUE,
          value |-> JsonTable[CHOOSE i \in 1..Len(JsonTable) : JsonTable[i].text = text].value]
    ELSE [ok |-> FALSE, value |-> EmptyObject]

\* replies to GET /api/tags; field is the body's "models" entry, its list
\* standing for the entries' "name" values
HealthReplies ==
    {Raised("timeout"), Raised("error"),
     Response(503, "object", Absent),
     Response(200, "invalid", Absent),
     Response(200, "array", Absent),
     Response(200, "object", Absent),
     Response(200, "object", Str("none")),
     Response(200, "object", List(<<"m1">>)),
     Response(200, "object", List(<<"m1", "m2">>))}

\* replies to POST /api/pull
PullReplies == {Raised("timeout"), Raised("error"),
                Response(404, "object", Absent), Response(200, "object", Absent)}

\* replies to POST /api/generate; field is the body's "response" entry
GenerateReplies ==
    {Raised("timeout"), Raised("error"),
     Response(500, "object", Absent),
     Response(200, "invalid", Absent),
     Response(200, "array", Absent),
     Response(200, "object", Absent),
     Response(200, "object", Num(7)),
     Response(200, "object", Str("Sorry, I cannot"))}
    \cup {Response(200, "object", Str(JsonTable[i].text)) : i \in 1..Len(JsonTable)}

(***************************************************************************)
(* State                                                                   *)
(***************************************************************************)
VARIABLES
    state,      \* the ServerState instance
    metrics,    \* the Prometheus counters and gauges
    req,        \* the /analyze requests: position in the handler, input, outcome
    probe,      \* the lifespan task: start-up probe, then the periodic probe,
                \* with the outcome of its last probe
    scenario    \* the test scenario a client of the classifiers is running

vars == <<state, metrics, req, probe, scenario>>

RequestIds == 1..NumRequests

Min(a, b) == IF a < b THEN a ELSE b
Max(a, b) == IF a > b THEN a ELSE b

NoResult ==
    [summary |-> "", category |-> "", productivity_score |-> 0, key_activities |-> <<>>,
     suggestions |-> Absent, model_used |-> "", confidence |-> 0]

\* A request slot.  engine, looked_up, generated, pulls and the decided_*
\* fields record what the handler did for the request; the handler never
\* reads them.
IdleRequest ==
    [pc |-> "idle", text |-> "", app_name |-> "", model |-> "",
     status |-> 0, result |-> NoResult, analysis |-> EmptyObject,
     engine |-> "none", looked_up |-> FALSE, generated |-> FALSE, pulls |-> 0,
     decided |-> FALSE, decided_available |-> FALSE, decided_known |-> FALSE]

ServerState ==
    [total_analyses |-> 0, total_errors |-> 0, ollama_available |-> FALSE,
     available_models |-> <<>>, analysis_cache |-> <<>>,
     cache_hits |-> 0, cache_misses |-> 0]

NoMetrics ==
    [analysis_requests |-> 0, analysis_errors |-> 0, server_health |-> 0, model_loaded |-> 0]

\* no test client is running
NoScenario == [pc |-> "none"]

(***************************************************************************)
(* check_ollama_health, from the reply to GET /api/tags on                 *)
(***************************************************************************)
\* the reply makes the try block raise: a timeout or connection error, a
\* body that is not JSON, or JSON of another shape than {"models": [{"name": ..}]}
HealthRaises(reply) ==
    \/ reply.kind # "http"
    \/ /\ reply.status = 200
       /\ \/ reply.json # "object"
          \/ Get(reply.field, List(<<>>)).t # "list"

\* how a probe ended, as the log tells it: "unreachable" (timeout or connection
\* error) and "malformed" (a 200 whose body is not the JSON expected) are
\* logged as failed, "status" (another status than 200) is not logged, "ok" is
ProbeOutcome(reply) ==
    IF reply.kind # "http" THEN "unreachable"
    ELSE IF reply.status # 200 THEN "status"
    ELSE IF HealthRaises(reply) THEN "malformed"
    ELSE "ok"

\* a check that lists the models but never sets the flag again
check_ollama_health_never_recovering(st, mx, reply) ==
    IF HealthRaises(reply)
    THEN [st |-> [st EXCEPT !.ollama_available = FALSE],
          mx |-> [mx EXCEPT !.model_loaded = 0],
          ok |-> FALSE]
    ELSE IF reply.status = 200
    THEN LET names == Get(reply.field, List(<<>>)).l
         IN  [st |-> [st EXCEPT !.available_models = names],
              mx |-> [mx EXCEPT !.model_loaded = IF names # <<>> THEN 1 ELSE 0],
              ok |-> TRUE]
    ELSE [st |-> st, mx |-> mx, ok |-> FALSE]

check_ollama_health(st, mx, reply) ==
    IF HealthRaises(reply)
    THEN [st |-> [st EXCEPT !.ollama_available = FALSE],
          mx |-> [mx EXCEPT !.model_loaded = 0],
          ok |-> FALSE]
    ELSE IF reply.status = 200
    THEN LET names == Get(reply.field, List(<<>>)).l
         IN  [st |-> [st EXCEPT !.available_models = names, !.ollama_available = TRUE],
              mx |-> [mx EXCEPT !.model_loaded = IF names # <<>> THEN 1 ELSE 0],
              ok |-> TRUE]
    ELSE [st |-> st, mx |-> mx, ok |-> FALSE]

\* GET /health: the HealthStatus returned (the uptime left out); error_rate
\* is the fraction num / den
health_check(st) ==
    [status |-> IF st.ollama_available THEN "healthy" ELSE "degraded",
     ollama_available |-> st.ollama_available,
     model_loaded |-> Len(st.available_models) > 0,
     total_analyses |-> st.total_analyses,
     error_rate |-> [num |-> st.total_errors, den |-> Max(st.total_analyses, 1)]]

\* get_statistics that divides the hits by the misses
get_statistics_hits_per_miss(st) ==
    [total_analyses |-> st.total_analyses,
     total_errors |-> st.total_errors,
     error_rate |-> [num |-> st.total_errors, den |-> Max(st.total_analyses, 1)],
     cache_hits |-> st.cache_hits,
     cache_misses |-> st.cache_misses,
     cache_hit_rate |-> [num |-> st.cache_hits, den |-> Max(st.cache_misses, 1)],
     models_loaded |-> Len(st.available_models),
     ollama_available |-> st.ollama_available]

\* GET /stats (the uptime left out); the rates are fractions num / den
get_statistics(st) ==
    [total_analyses |-> st.total_analyses,
     total_errors |-> st.total_errors,
     error_rate |-> [num |-> st.total_errors, den |-> Max(st.total_analyses, 1)],
     cache_hits |-> st.cache_hits,
     cache_misses |-> st.cache_misses,
     cache_hit_rate |-> [num |-> st.cache_hits,
                         den |-> Max(st.cache_hits + st.cache_misses, 1)],
     models_loaded |-> Len(st.available_models),
     ollama_available |-> st.ollama_available]

(***************************************************************************)
(* The result cache: a dict, which keeps its keys in insertion order       *)
(***************************************************************************)
CacheKey(text, app_name, model) ==
    Prefix(text, KeyPrefixLen) \o "_" \o app_name \o "_" \o model

InCache(cache, key) == \E i \in 1..Len(cache) : cache[i].key = key

CacheGet(cache, key) == cache[CHOOSE i \in 1..Len(cache) : cache[i].key = key].value

\* cache[key] = value: a key already present keeps its place
CacheSet(cache, key, value) ==
    IF InCache(cache, key)
    THEN [i \in 1..Len(cache) |->
             IF cache[i].key = key THEN [key |-> key, value |-> value] ELSE cache[i]]
    ELSE Append(cache, [key |-> key, value |-> value])

\* LimitCache deleting the last EvictBatch keys instead of the first
LimitCacheNewest(cache) ==
    IF Len(cache) > CacheMax THEN SubSeq(cache, 1, Len(cache) - EvictBatch) ELSE cache

\* LimitCache with its threshold one too high
LimitCacheLate(cache) ==
    IF Len(cache) > CacheMax + 1 THEN SubSeq(cache, EvictBatch + 1, Len(cache)) ELSE cache

\* "Limit cache size": over CacheMax entries, delete the first EvictBatch keys
LimitCache(cache) ==
    IF Len(cache) > CacheMax THEN SubSeq(cache, EvictBatch + 1, Len(cache)) ELSE cache

CacheStore(cache, key, value) == LimitCache(CacheSet(cache, key, value))

(***************************************************************************)
(* analyze_screenshot, "Create result" on: the AnalysisResult, the         *)
(* counters, the response                                                  *)
(***************************************************************************)
ClampScore(x) == Min(ScoreMax, Max(ScoreMin, x))

\* a Field without its ge and le constraints
FieldUnbounded(x, lo, hi) == TRUE

\* Field(ge = lo, le = hi)
FieldInRange(x, lo, hi) == lo <= x /\ x <= hi

\* the model's own validation of the values it is constructed from
AnalysisResultValid(summary, category, score, activities, suggestions, confidence) ==
    /\ summary.t = "str"
    /\ category.t = "str"
    /\ FieldInRange(score, ScoreMin, ScoreMax)
    /\ activities.t = "list"
    /\ suggestions.t \in {"absent", "list"}
    /\ FieldInRange(confidence, ConfMin, ConfMax)

ModelUsed(st, model) == IF st.ollama_available THEN model ELSE HeuristicSentinel

\* [ok, result]: ok is false when the construction raises
MakeResult(st, analysis, model) ==
    LET summary == Get(analysis.summary, Str(DefaultSummary))
        category == Get(analysis.category, Str(DefaultCategory))
        score == Get(analysis.productivity_score, Num(DefaultScore))
        activities == Get(analysis.key_activities, List(<<>>))
        suggestions == analysis.suggestions
        confidence == Get(analysis.confidence, Num(DefaultConfidence))
        ok == /\ analysis.shape = "object"
              /\ score.t = "num"
              /\ confidence.t = "num"
              /\ AnalysisResultValid(summary, category, ClampScore(score.n),
                                     activities, suggestions, confidence.n)
    IN  [ok |-> ok,
         result |-> IF ~ok THEN NoResult
                    ELSE [summary |-> summary.s, category |-> category.s,
                          productivity_score |-> ClampScore(score.n),
                          key_activities |-> activities.l,
                          suggestions |-> suggestions,
                          model_used |-> ModelUsed(st, model),
                          confidence |-> confidence.n]]

\* Respond taking a failed request back out of total_analyses
RespondUncounting(W, analysis, engine) ==
    LET made == MakeResult(W.st, analysis, W.rq.model)
        rq == [W.rq EXCEPT !.pc = "done", !.analysis = analysis, !.engine = engine]
    IN  IF made.ok
        THEN [st |-> [W.st EXCEPT !.total_analyses = @ + 1],
              mx |-> W.mx,
              rq |-> [rq EXCEPT !.status = 200, !.result = made.result]]
        ELSE [st |-> [W.st EXCEPT !.total_errors = @ + 1, !.total_analyses = @ - 1],
              mx |-> [W.mx EXCEPT !.analysis_errors = @ + 1],
              rq |-> [rq EXCEPT !.status = 500]]

\* W is [st, mx, rq]: the server state, the metrics and the request
Respond(W, analysis, engine) ==
    LET made == MakeResult(W.st, analysis, W.rq.model)
        rq == [W.rq EXCEPT !.pc = "done", !.analysis = analysis, !.engine = engine]
    IN  IF made.ok
        THEN [st |-> [W.st EXCEPT !.total_analyses = @ + 1],
              mx |-> W.mx,
              rq |-> [rq EXCEPT !.status = 200, !.result = made.result]]
        ELSE [st |-> [W.st EXCEPT !.total_errors = @ + 1],
              mx |-> [W.mx EXCEPT !.analysis_errors = @ + 1],
              rq |-> [rq EXCEPT !.status = 500]]

(***************************************************************************)
(* analyze_with_ollama                                                     *)
(***************************************************************************)
\* the entries with the one under key moved to the newest place
Promote(cache, key) ==
    LET at == CHOOSE i \in 1..Len(cache) : cache[i].key = key
    IN  SubSeq(cache, 1, at - 1) \o SubSeq(cache, at + 1, Len(cache)) \o <<cache[at]>>

\* a lookup that makes the entry it hits the most recent one
CacheLookupPromoting(W) ==
    LET key == CacheKey(W.rq.text, W.rq.app_name, W.rq.model)
        rq == [W.rq EXCEPT !.looked_up = TRUE]
    IN  IF InCache(W.st.analysis_cache, key)
        THEN Respond([W EXCEPT !.st.cache_hits = @ + 1,
                               !.st.analysis_cache = Promote(@, key),
                               !.rq = rq],
                     CacheGet(W.st.analysis_cache, key), "cache")
        ELSE [W EXCEPT !.st.cache_misses = @ + 1,
                       !.rq = [rq EXCEPT !.pc = "generate", !.generated = TRUE]]

\* a lookup whose miss is not counted
CacheLookupDroppingMiss(W) ==
    LET key == CacheKey(W.rq.text, W.rq.app_name, W.rq.model)
        rq == [W.rq EXCEPT !.looked_up = TRUE]
    IN  IF InCache(W.st.analysis_cache, key)
        THEN Respond([W EXCEPT !.st.cache_hits = @ + 1, !.rq = rq],
                     CacheGet(W.st.analysis_cache, key), "cache")
        ELSE [W EXCEPT !.rq = [rq EXCEPT !.pc = "generate", !.generated = TRUE]]

\* up to the await of POST /api/generate: the cache lookup
CacheLookup(W) ==
    LET key == CacheKey(W.rq.text, W.rq.app_name, W.rq.model)
        rq == [W.rq EXCEPT !.looked_up = TRUE]
    IN  IF InCache(W.st.analysis_cache, key)
        THEN Respond([W EXCEPT !.st.cache_hits = @ + 1, !.rq = rq],
                     CacheGet(W.st.analysis_cache, key), "cache")
        ELSE [W EXCEPT !.st.cache_misses = @ + 1,
                       !.rq = [rq EXCEPT !.pc = "generate", !.generated = TRUE]]

\* analyze_with_ollama caching what it returns on every path
analyze_with_ollama_caching_all(W, reply) ==
    LET failed == \/ reply.kind # "http"
                  \/ reply.status # 200
                  \/ reply.json # "object"
                  \/ Get(reply.field, Str("{}")).t # "str"
                  \/ ~JsonLoads(Get(reply.field, Str("{}")).s).ok
        analysis == IF failed THEN FallbackFor(W.rq)
                    ELSE JsonLoads(Get(reply.field, Str("{}")).s).value
        key == CacheKey(W.rq.text, W.rq.app_name, W.rq.model)
    IN  Respond([W EXCEPT !.st.analysis_cache = CacheStore(@, key, analysis)],
                analysis, IF failed THEN "heuristic" ELSE "backend")

\* the reply is no status 200 carrying a JSON object whose "response" parses
GenerateFails(reply) ==
    \/ reply.kind # "http"
    \/ reply.status # 200
    \/ reply.json # "object"
    \/ Get(reply.field, Str("{}")).t # "str"
    \/ ~JsonLoads(Get(reply.field, Str("{}")).s).ok

\* from the reply to POST /api/generate on
analyze_with_ollama(W, reply) ==
    IF GenerateFails(reply)
    THEN Respond(W, FallbackFor(W.rq), "heuristic")
    ELSE LET analysis == JsonLoads(Get(reply.field, Str("{}")).s).value
             key == CacheKey(W.rq.text, W.rq.app_name, W.rq.model)
         IN  Respond([W EXCEPT !.st.analysis_cache = CacheStore(@, key, analysis)],
                     analysis, "backend")

(***************************************************************************)
(* analyze_screenshot                                                      *)
(***************************************************************************)
\* the validation measuring the text as sent, not stripped
InvalidInputUnstripped(text) == text = "" \/ Len(text) < MinTextLen

\* "Validate input"
InvalidInput(text) == text = "" \/ Len(Strip(text)) < MinTextLen

\* the decision looking at the availability flag alone
UseBackendAnyModel(st, model) == st.ollama_available

UseBackend(st, model) == st.ollama_available /\ InSeq(model, st.available_models)

\* "Perform analysis" counting a miss when the heuristic is chosen
PerformAnalysisCountingMiss(W) ==
    LET rq == [W.rq EXCEPT !.decided = TRUE,
                           !.decided_available = W.st.ollama_available,
                           !.decided_known = InSeq(W.rq.model, W.st.available_models)]
    IN  IF UseBackend(W.st, W.rq.model)
        THEN CacheLookup([W EXCEPT !.rq = rq])
        ELSE Respond([W EXCEPT !.rq = rq, !.st.cache_misses = @ + 1],
                     FallbackFor(W.rq), "heuristic")

\* "Perform analysis"
PerformAnalysis(W) ==
    LET rq == [W.rq EXCEPT !.decided = TRUE,
                           !.decided_available = W.st.ollama_available,
                           !.decided_known = InSeq(W.rq.model, W.st.available_models)]
    IN  IF UseBackend(W.st, W.rq.model)
        THEN CacheLookup([W EXCEPT !.rq = rq])
        ELSE Respond([W EXCEPT !.rq = rq], FallbackFor(W.rq), "heuristic")

\* "Ensure model is available", up to the await of POST /api/pull
EnsureModel(W) ==
    IF ~InSeq(W.rq.model, W.st.available_models)
    THEN [W EXCEPT !.rq.pc = "pull", !.rq.pulls = @ + 1]
    ELSE PerformAnalysis(W)

\* a rejection that is counted as an error before it is raised
RejectCounted(W) ==
    [W EXCEPT !.rq.pc = "done", !.rq.status = 400, !.st.total_errors = @ + 1]

\* raise HTTPException(400), which the handler's "except HTTPException" re-raises
Reject(W) == [W EXCEPT !.rq.pc = "done", !.rq.status = 400]

\* a handler that probes only as long as no probe has listed a model
analyze_screenshot_probing_until_listed(W) ==
    LET counted == [W EXCEPT !.mx.analysis_requests = @ + 1]
    IN  IF InvalidInput(W.rq.text)
        THEN Reject(counted)
        ELSE IF W.st.available_models = <<>>
        THEN [counted EXCEPT !.rq.pc = "health"]
        ELSE EnsureModel(counted)

\* from the handler's entry to its first suspension
analyze_screenshot(W) ==
    LET counted == [W EXCEPT !.mx.analysis_requests = @ + 1]
    IN  IF InvalidInput(W.rq.text)
        THEN Reject(counted)
        ELSE IF ~W.st.ollama_available
        THEN [counted EXCEPT !.rq.pc = "health"]
        ELSE EnsureModel(counted)

(***************************************************************************)
(* Actions                                                                 *)
(***************************************************************************)
Commit(r, W) ==
    /\ state' = W.st
    /\ metrics' = W.mx
    /\ req' = [req EXCEPT ![r] = W.rq]
    /\ UNCHANGED scenario

World(r) == [st |-> state, mx |-> metrics, rq |-> req[r]]

\* lifespan: the start-up probe's reply arrives; requests are served after it
Startup(reply) ==
    /\ probe.pc = "startup"
    /\ LET checked == check_ollama_health(state, metrics, reply)
       IN  state' = checked.st /\ metrics' = checked.mx
    /\ probe' = [probe EXCEPT !.pc = "sleep", !.outcome = ProbeOutcome(reply)]
    /\ UNCHANGED <<req, scenario>>

\* periodic_health_check: the sleep ends and GET /api/tags is sent
ProbeSend ==
    /\ probe.pc = "sleep"
    /\ probe.count < MaxProbes
    /\ probe' = [probe EXCEPT !.pc = "probe", !.count = @ + 1]
    /\ UNCHANGED <<state, metrics, req, scenario>>

\* periodic_health_check: the reply arrives
ProbeReply(reply) ==
    /\ probe.pc = "probe"
    /\ LET checked == check_ollama_health(state, metrics, reply)
       IN  /\ state' = checked.st
           /\ metrics' = [checked.mx EXCEPT
                            !.server_health = IF checked.st.ollama_available THEN 1 ELSE 0]
    /\ probe' = [probe EXCEPT !.pc = "sleep", !.outcome = ProbeOutcome(reply)]
    /\ UNCHANGED <<req, scenario>>

\* POST /analyze arrives and runs to its first suspension (or to its response)
Receive(r, input) ==
    /\ probe.pc # "startup"
    /\ req[r].pc = "idle"
    /\ \A q \in RequestIds : q < r => req[q].pc # "idle"
    /\ Commit(r, analyze_screenshot(
                    [World(r) EXCEPT !.rq.text = input.text,
                                     !.rq.app_name = input.app_name,
                                     !.rq.model = input.model]))
    /\ UNCHANGED probe

\* the reply to the handler's own check_ollama_health arrives
HealthReply(r, reply) ==
    /\ req[r].pc = "health"
    /\ LET checked == check_ollama_health(state, metrics, reply)
       IN  Commit(r, EnsureModel([st |-> checked.st, mx |-> checked.mx, rq |-> req[r]]))
    /\ UNCHANGED probe

\* pull_model_if_needed: the reply to POST /api/pull arrives
PullReply(r, reply) ==
    /\ req[r].pc = "pull"
    /\ IF reply.kind = "http" /\ reply.status = 200
       THEN Commit(r, [World(r) EXCEPT !.rq.pc = "pull_health"])
       ELSE Commit(r, PerformAnalysis(World(r)))
    /\ UNCHANGED probe

\* pull_model_if_needed: the reply to its check_ollama_health arrives
PullHealthReply(r, reply) ==
    /\ req[r].pc = "pull_health"
    /\ LET checked == check_ollama_health(state, metrics, reply)
       IN  Commit(r, PerformAnalysis([st |-> checked.st, mx |-> checked.mx, rq |-> req[r]]))
    /\ UNCHANGED probe

\* analyze_with_ollama: the reply to POST /api/generate arrives
GenerateReply(r, reply) ==
    /\ req[r].pc = "generate"
    /\ Commit(r, analyze_with_ollama(World(r), reply))
    /\ UNCHANGED probe

Init ==
    /\ state = ServerState
    /\ metrics = NoMetrics
    /\ req = [r \in RequestIds |-> IdleRequest]
    /\ probe = [pc |-> "startup", count |-> 0, outcome |-> "none"]
    /\ scenario = NoScenario

Next ==
    \/ \E reply \in HealthReplies : Startup(reply)
    \/ ProbeSend
    \/ \E reply \in HealthReplies : ProbeReply(reply)
    \/ \E r \in RequestIds, input \in Inputs : Receive(r, input)
    \/ \E r \in RequestIds, reply \in HealthReplies : HealthReply(r, reply)
    \/ \E r \in RequestIds, reply \in PullReplies : PullReply(r, reply)
    \/ \E r \in RequestIds, reply \in HealthReplies : PullHealthReply(r, reply)
    \/ \E r \in RequestIds, reply \in GenerateReplies : GenerateReply(r, reply)

Spec == Init /\ [][Next]_vars

(***************************************************************************)
(* The service with a full cache: the state after CacheMax requests with   *)
(* distinct texts were served one after the other by a healthy backend     *)
(* that knows model m1.                                                    *)
(***************************************************************************)
FillerReply == Response(200, "object", Str(JsonTable[1].text))

WarmCache ==
    [i \in 1..CacheMax |->
        [key |-> CacheKey(FillerInput(i).text, FillerInput(i).app_name, FillerInput(i).model),
         value |-> JsonLoads(FillerReply.field.s).value]]

InitWarm ==
    /\ state = [ServerState EXCEPT !.ollama_available = TRUE,
                                   !.available_models = <<"m1">>,
                                   !.analysis_cache = WarmCache,
                                   !.cache_misses = CacheMax,
                                   !.total_analyses = CacheMax]
    /\ metrics = [NoMetrics EXCEPT !.analysis_requests = CacheMax,
                                   !.model_loaded = 1]
    /\ req = [r \in RequestIds |-> IdleRequest]
    /\ probe = [pc |-> "sleep", count |-> 0, outcome |-> "ok"]
    /\ scenario = NoScenario

NextWarm ==
    \/ ProbeSend
    \/ \E reply \in HealthReplies : ProbeReply(reply)
    \/ \E r \in RequestIds, input \in WarmInputs : Receive(r, input)
    \/ \E r \in RequestIds, reply \in HealthReplies : HealthReply(r, reply)
    \/ \E r \in RequestIds, reply \in PullReplies : PullReply(r, reply)
    \/ \E r \in RequestIds, reply \in HealthReplies : PullHealthReply(r, reply)
    \/ \E r \in RequestIds, reply \in GenerateReplies : GenerateReply(r, reply)

SpecWarm == InitWarm /\ [][NextWarm]_vars

(***************************************************************************)
(* The analysis log.  A request answered 200 leaves a background task      *)
(* log_analysis behind, which runs after the response was sent and writes  *)
(* one file into the log directory.  The clock counts ticks of             *)
(* 1/TicksPerSecond seconds; files maps a file name to what was last       *)
(* written to it, writer being the request the entry belongs to.  The      *)
(* service starts with a backend that listed model m1, and its periodic    *)
(* probes are left out.                                                    *)
(***************************************************************************)
\* strftime('%Y%m%d_%H%M%S'): the time in whole seconds
log_file(now) == now \div TicksPerSecond

log_entry(rq) ==
    [text_length |-> Len(rq.text), app_name |-> rq.app_name, model |-> rq.model,
     summary |-> rq.result.summary, category |-> rq.result.category,
     productivity_score |-> rq.result.productivity_score,
     key_activities |-> rq.result.key_activities, confidence |-> rq.result.confidence]

\* aiofiles.open(log_file, 'w') and write: the file holds this entry alone
log_analysis(files, r, rq, now) ==
    [name \in DOMAIN files \cup {log_file(now)} |->
        IF name = log_file(now) THEN [writer |-> r, entry |-> log_entry(rq)]
        ELSE files[name]]

\* an exception of the background task, counted like one of the handler
background_task_raised_counted(st) == [st EXCEPT !.total_errors = @ + 1]

\* an exception of the background task is raised after the handler returned:
\* no except clause of the handler sees it
background_task_raised(st) == st

LogInputs == {input \in Inputs : input.model = "m1" /\ Len(input.text) > KeyPrefixLen}

NoLog == [pc |-> "log", now |-> 0, files |-> <<>>, written |-> {}, failed |-> {}]

InitLog ==
    /\ state = [ServerState EXCEPT !.ollama_available = TRUE,
                                   !.available_models = <<"m1">>]
    /\ metrics = [NoMetrics EXCEPT !.model_loaded = 1]
    /\ req = [r \in RequestIds |-> IdleRequest]
    /\ probe = [pc |-> "sleep", count |-> 0, outcome |-> "ok"]
    /\ scenario = NoLog

Pending(r) ==
    /\ req[r].pc = "done"
    /\ req[r].status = 200
    /\ r \notin scenario.written \cup scenario.failed

\* the background task of request r runs and writes its file
LogWritten(r) ==
    /\ Pending(r)
    /\ scenario' = [scenario EXCEPT
                       !.files = log_analysis(@, r, req[r], scenario.now),
                       !.written = @ \cup {r}]
    /\ UNCHANGED <<state, metrics, req, probe>>

\* the background task of request r raises (the directory or the file
\* cannot be written)
LogFailed(r) ==
    /\ Pending(r)
    /\ scenario' = [scenario EXCEPT !.failed = @ \cup {r}]
    /\ state' = background_task_raised(state)
    /\ UNCHANGED <<metrics, req, probe>>

\* time passes
Tick ==
    /\ scenario.now < MaxClock
    /\ scenario' = [scenario EXCEPT !.now = @ + 1]
    /\ UNCHANGED <<state, metrics, req, probe>>

NextLog ==
    \/ \E r \in RequestIds, input \in LogInputs : Receive(r, input)
    \/ \E r \in RequestIds, reply \in GenerateReplies : GenerateReply(r, reply)
    \/ \E r \in RequestIds : LogWritten(r)
    \/ \E r \in RequestIds : LogFailed(r)
    \/ Tick

SpecLog == InitLog /\ [][NextLog]_vars

(***************************************************************************)
(* Recovery of the backend.  The periodic probe runs for ever; recovered   *)
(* tells that the backend has come back, from when on every GET /api/tags  *)
(* is answered 200 with a list that holds model m1.  The sleep of the      *)
(* probe loop ends and every probe sent gets its reply (the HTTP client    *)
(* times out after 5 s), which is what the fairness conditions say.        *)
(***************************************************************************)
Recovered == [pc |-> "backend", recovered |-> TRUE]

NotRecovered == [pc |-> "backend", recovered |-> FALSE]

RecoveredReplies ==
    {reply \in HealthReplies : ~HealthRaises(reply) /\ reply.status = 200
                               /\ InSeq("m1", Get(reply.field, List(<<>>)).l)}

TagsReplies == IF scenario = Recovered THEN RecoveredReplies ELSE HealthReplies

InitRecovery ==
    /\ state = ServerState
    /\ metrics = NoMetrics
    /\ req = [r \in RequestIds |-> IdleRequest]
    /\ probe = [pc |-> "startup", count |-> 0, outcome |-> "none"]
    /\ scenario = NotRecovered

\* the backend comes back
Recover ==
    /\ scenario = NotRecovered
    /\ scenario' = Recovered
    /\ UNCHANGED <<state, metrics, req, probe>>

\* periodic_health_check: the sleep ends and GET /api/tags is sent, time
\* and again
MonitorSend ==
    /\ probe.pc = "sleep"
    /\ probe' = [probe EXCEPT !.pc = "probe"]
    /\ UNCHANGED <<state, metrics, req, scenario>>

StartupEnds == \E reply \in TagsReplies : Startup(reply)

MonitorReply == \E reply \in TagsReplies : ProbeReply(reply)

NextRecovery ==
    \/ Recover
    \/ StartupEnds
    \/ MonitorSend
    \/ MonitorReply
    \/ \E r \in RequestIds, input \in LogInputs : Receive(r, input)
    \/ \E r \in RequestIds, reply \in TagsReplies : HealthReply(r, reply)
    \/ \E r \in RequestIds, reply \in PullReplies : PullReply(r, reply)
    \/ \E r \in RequestIds, reply \in TagsReplies : PullHealthReply(r, reply)
    \/ \E r \in RequestIds, reply \in GenerateReplies : GenerateReply(r, reply)

SpecRecovery ==
    /\ InitRecovery
    /\ [][NextRecovery]_vars
    /\ WF_vars(StartupEnds)
    /\ WF_vars(MonitorSend)
    /\ WF_vars(MonitorReply)

(***************************************************************************)
(* The cache key.  The backend is up and lists model m1; the bodies are    *)
(* KeyInputs, so that every valid request looks the cache up.              *)
(***************************************************************************)
NoKeys == [pc |-> "keys"]

InitKeys ==
    /\ state = [ServerState EXCEPT !.ollama_available = TRUE,
                                   !.available_models = <<"m1">>]
    /\ metrics = [NoMetrics EXCEPT !.model_loaded = 1]
    /\ req = [r \in RequestIds |-> IdleRequest]
    /\ probe = [pc |-> "sleep", count |-> 0, outcome |-> "ok"]
    /\ scenario = NoKeys

NextKeys ==
    \/ \E r \in RequestIds, input \in KeyInputs : Receive(r, input)
    \/ \E r \in RequestIds, reply \in GenerateReplies : GenerateReply(r, reply)

SpecKeys == InitKeys /\ [][NextKeys]_vars

(***************************************************************************)
(* The heuristic classifier on its own: create_fallback_analysis called on *)
(* a text and an application name, as /analyze calls it when it does not   *)
(* use the backend.  The texts are up to MaxTokens tokens joined by        *)
(* blanks, and some texts written out.                                     *)
(***************************************************************************)
Tokens ==
    {"Code", "email", "chatting", "documentation", "https://x.io", "hello", "Tuesday"}

RECURSIVE TokenTexts(_)
TokenTexts(n) ==
    IF n = 0 THEN {""}
    ELSE {IF t = "" THEN w ELSE t \o " " \o w : t \in TokenTexts(n - 1), w \in Tokens}

WrittenTexts ==
    {"@#$%^&*()_+-=[]{}|;':\",./<>?",
     "  \n ",
     "import numpy\n\tclass  Model:",
     "Netflix and Figma sketches",
     "Friday Sunday Monday Saturday Thursday Wednesday Tuesday Sunday Sunday"}

HeuristicTexts == UNION {TokenTexts(n) : n \in 0..MaxTokens} \cup WrittenTexts

HeuristicApps == {"Test", "Safari"}

InitHeuristic ==
    /\ state = ServerState
    /\ metrics = NoMetrics
    /\ req = [r \in RequestIds |-> IdleRequest]
    /\ probe = [pc |-> "startup", count |-> 0, outcome |-> "none"]
    /\ scenario \in {[pc |-> "ready", text |-> t, app_name |-> a, analysis |-> EmptyObject] :
                        t \in HeuristicTexts, a \in HeuristicApps}

\* analysis = create_fallback_analysis(request.text, request.context.app_name)
ClassifyHeuristic ==
    /\ scenario.pc = "ready"
    /\ scenario' = [scenario EXCEPT
                       !.pc = "returned",
                       !.analysis = create_fallback_analysis(scenario.text, scenario.app_name)]
    /\ UNCHANGED <<state, metrics, req, probe>>

NextHeuristic == ClassifyHeuristic

SpecHeuristic == InitHeuristic /\ [][NextHeuristic]_vars

(***************************************************************************)
(* The focus classifier of focused_mock_server.py                          *)
(***************************************************************************)
focus_app_mappings ==
    << [key |-> "studying computer science",
        related |-> {"code", "xcode", "terminal", "stack overflow", "documentation"}],
       [key |-> "writing code",
        related |-> {"code", "xcode", "intellij", "sublime", "atom", "terminal"}],
       [key |-> "writing email", related |-> {"mail", "gmail", "outlook", "thunderbird"}],
       [key |-> "learning react",
        related |-> {"react", "documentation", "tutorial", "mdn", "javascript"}],
       [key |-> "designing",
        related |-> {"figma", "sketch", "photoshop", "illustrator", "design"}],
       [key |-> "analyzing",
        related |-> {"excel", "sheets", "tableau", "analytics", "dashboard"}],
       [key |-> "reading documentation",
        related |-> {"docs", "documentation", "api", "reference", "guide"}],
       [key |-> "debugging",
        related |-> {"debug", "console", "terminal", "error", "stack trace"}],
       [key |-> "meeting", related |-> {"zoom", "teams", "meet", "skype", "webex"}],
       [key |-> "presentation", related |-> {"powerpoint", "keynote", "slides", "deck"}] >>

distractions ==
    {"youtube", "netflix", "twitter", "facebook", "instagram", "reddit",
     "tiktok", "twitch", "spotify", "game", "whatsapp", "messenger"}

work_keywords ==
    {"project", "task", "meeting", "deadline", "client", "code",
     "function", "class", "email", "report", "analysis", "design"}

Verdict(classification, confidence) ==
    [classification |-> classification, confidence |-> confidence]

\* the number of places of the text at which kw starts
Occurrences(text, kw) ==
    Cardinality({i \in 1..(Len(text) - Len(kw) + 1) : SubSeq(text, i, i + Len(kw) - 1) = kw})

\* the occurrences of the keywords kws in the text, each one counted
RECURSIVE TotalOccurrences(_, _)
TotalOccurrences(text, kws) ==
    IF kws = {} THEN 0
    ELSE LET kw == CHOOSE k \in kws : TRUE
         IN  Occurrences(text, kw) + TotalOccurrences(text, kws \ {kw})

\* classify_focus with work_count the number of keyword occurrences
classify_focus_by_occurrences(user_focus, app_name, text) ==
    IF \E distraction \in distractions :
           Contains(app_name, distraction) \/ Contains(text, distraction)
    THEN Verdict("not_focused", DistractedConfidence)
    ELSE IF \E i \in 1..Len(focus_app_mappings) :
                /\ Contains(user_focus, focus_app_mappings[i].key)
                /\ \E app \in focus_app_mappings[i].related :
                       Contains(app_name, app) \/ Contains(text, app)
    THEN Verdict("focused", RelatedConfidence)
    ELSE LET work_count == TotalOccurrences(text, work_keywords)
         IN  IF work_count >= ManyWork THEN Verdict("focused", ManyWorkConfidence)
             ELSE IF work_count >= SomeWork THEN Verdict("focused", SomeWorkConfidence)
             ELSE Verdict("not_focused", NoWorkConfidence)

\* classify_focus asking the goal's related keywords before the distractions
classify_focus_goal_first(user_focus, app_name, text) ==
    IF \E i \in 1..Len(focus_app_mappings) :
           /\ Contains(user_focus, focus_app_mappings[i].key)
           /\ \E app \in focus_app_mappings[i].related :
                  Contains(app_name, app) \/ Contains(text, app)
    THEN Verdict("focused", RelatedConfidence)
    ELSE IF \E distraction \in distractions :
                Contains(app_name, distraction) \/ Contains(text, distraction)
    THEN Verdict("not_focused", DistractedConfidence)
    ELSE LET work_count == Cardinality({kw \in work_keywords : Contains(text, kw)})
         IN  IF work_count >= ManyWork THEN Verdict("focused", ManyWorkConfidence)
             ELSE IF work_count >= SomeWork THEN Verdict("focused", SomeWorkConfidence)
             ELSE Verdict("not_focused", NoWorkConfidence)

\* its arguments arrive lower-cased
classify_focus(user_focus, app_name, text) ==
    IF \E distraction \in distractions :
           Contains(app_name, distraction) \/ Contains(text, distraction)
    THEN Verdict("not_focused", DistractedConfidence)
    ELSE IF \E i \in 1..Len(focus_app_mappings) :
                /\ Contains(user_focus, focus_app_mappings[i].key)
                /\ \E app \in focus_app_mappings[i].related :
                       Contains(app_name, app) \/ Contains(text, app)
    THEN Verdict("focused", RelatedConfidence)
    ELSE LET work_count == Cardinality({kw \in work_keywords : Contains(text, kw)})
         IN  IF work_count >= ManyWork THEN Verdict("focused", ManyWorkConfidence)
             ELSE IF work_count >= SomeWork THEN Verdict("focused", SomeWorkConfidence)
             ELSE Verdict("not_focused", NoWorkConfidence)

(***************************************************************************)
(* POST /analyze_focus and the evaluator of focused_evaluation.py.  A reply *)
(* to the evaluator is an exception of the HTTP client or a response with  *)
(* a status and a body; json tells whether the body is a JSON object, and  *)
(* classification and confidence are the object's entries.                 *)
(***************************************************************************)
FocusRaised(kind) ==
    [kind |-> kind, status |-> 0, json |-> "none",
     classification |-> Absent, confidence |-> Absent]

FocusResponse(status, json, classification, confidence) ==
    [kind |-> "http", status |-> status, json |-> json,
     classification |-> classification, confidence |-> confidence]

\* random.uniform(-0.1, 0.1), in hundredths
Jitters == {-JitterMax, -4, 0, 7, JitterMax}

\* FocusedMockHandler.do_POST for a well-formed body
analyze_focus(text, user_focus, app_name, jitter) ==
    LET verdict == classify_focus(Lower(user_focus), Lower(app_name), Lower(text))
        confidence == Max(JitterFloor, Min(JitterCeiling, verdict.confidence + jitter))
    IN  [verdict |-> verdict,
         response |-> FocusResponse(200, "object", Str(verdict.classification), Num(confidence))]

\* what a server other than the mock may answer, and what the client raises
FocusReplies ==
    {FocusRaised("ConnectError"), FocusRaised("ReadTimeout"),
     FocusResponse(500, "object", Absent, Absent),
     FocusResponse(200, "invalid", Absent, Absent),
     FocusResponse(200, "array", Absent, Absent),
     FocusResponse(200, "object", Str("Focused"), Num(92)),
     FocusResponse(200, "object", Str("not_focused"), Absent),
     FocusResponse(200, "object", Str("focused"), Str("high")),
     FocusResponse(200, "object", Str("not_focused"), Str("high")),
     FocusResponse(200, "object", Num(1), Num(50)),
     FocusResponse(200, "object", Absent, Num(100)),
     FocusResponse(200, "object", Str("focused"), Num(130))}

NoOutcome ==
    [success |-> FALSE, error |-> "", correct_classification |-> FALSE,
     expected |-> "", predicted |-> "", confidence |-> Absent, confidence_quality |-> Absent]

Failed(error) == [NoOutcome EXCEPT !.error = error]

\* evaluate_single_scenario that takes the confidence as the quality either way
evaluate_single_scenario_uncalibrated(expected_classification, response) ==
    IF response.kind # "http" THEN Failed(response.kind)
    ELSE IF response.status # 200 THEN Failed("HTTP " \o ToString(response.status))
    ELSE IF response.json = "invalid" THEN Failed("JSONDecodeError")
    ELSE IF response.json # "object" THEN Failed("AttributeError")
    ELSE LET classification == Get(response.classification, Str(""))
             confidence == Get(response.confidence, Num(DefaultConfidence))
         IN  IF classification.t # "str" THEN Failed("AttributeError")
             ELSE [success |-> TRUE, error |-> "",
                   correct_classification |-> Lower(classification.s) = expected_classification,
                   expected |-> expected_classification,
                   predicted |-> Lower(classification.s),
                   confidence |-> confidence,
                   confidence_quality |-> confidence]

\* evaluate_single_scenario, from the reply to POST /analyze_focus on
evaluate_single_scenario(expected_classification, response) ==
    IF response.kind # "http" THEN Failed(response.kind)
    ELSE IF response.status # 200 THEN Failed("HTTP " \o ToString(response.status))
    ELSE IF response.json = "invalid" THEN Failed("JSONDecodeError")
    ELSE IF response.json # "object" THEN Failed("AttributeError")
    ELSE LET classification == Get(response.classification, Str(""))
             confidence == Get(response.confidence, Num(DefaultConfidence))
             correct_classification == Lower(classification.s) = expected_classification
         IN  IF classification.t # "str" THEN Failed("AttributeError")
             ELSE IF ~correct_classification /\ confidence.t # "num" THEN Failed("TypeError")
             ELSE [success |-> TRUE, error |-> "",
                   correct_classification |-> correct_classification,
                   expected |-> expected_classification,
                   predicted |-> Lower(classification.s),
                   confidence |-> confidence,
                   confidence_quality |-> IF correct_classification THEN confidence
                                          ELSE Num(ConfMax - confidence.n)]

FocusGoals == {"Studying Computer Science", "Writing Email", "Relaxing", ""}

FocusApps == {"YouTube", "Visual Studio Code", "Safari", "Mail"}

FocusTexts ==
    {"File  Edit  View  Search  Terminal  Debug  Help\nclass BinaryTree:\n    def __init__(self, value):",
     "Watch later on YouTube",
     "code code code",
     "Project: task list and deadline",
     "project TASK",
     "Weather today",
     ""}

FocusScenarios ==
    {[pc |-> "ready", user_focus |-> g, app_name |-> a, screen_content |-> t,
      expected_classification |-> e, served_by |-> "none",
      verdict |-> Verdict("", 0), response |-> FocusRaised("none"), outcome |-> NoOutcome] :
        g \in FocusGoals, a \in FocusApps, t \in FocusTexts, e \in {"focused", "not_focused"}}

InitFocus ==
    /\ state = ServerState
    /\ metrics = NoMetrics
    /\ req = [r \in RequestIds |-> IdleRequest]
    /\ probe = [pc |-> "startup", count |-> 0, outcome |-> "none"]
    /\ scenario \in FocusScenarios

\* the mock server answers the evaluator's POST /analyze_focus
AnalyzeFocus(jitter) ==
    /\ scenario.pc = "ready"
    /\ LET served == analyze_focus(scenario.screen_content, scenario.user_focus,
                                   scenario.app_name, jitter)
       IN  scenario' = [scenario EXCEPT !.pc = "replied", !.served_by = "mock",
                                        !.verdict = served.verdict,
                                        !.response = served.response]
    /\ UNCHANGED <<state, metrics, req, probe>>

\* the evaluator's POST ends otherwise: the client raises, or another server answers
OtherReply(reply) ==
    /\ scenario.pc = "ready"
    /\ scenario' = [scenario EXCEPT !.pc = "replied", !.served_by = "other",
                                    !.response = reply]
    /\ UNCHANGED <<state, metrics, req, probe>>

\* the evaluator scores the reply
Evaluate ==
    /\ scenario.pc = "replied"
    /\ scenario' = [scenario EXCEPT
                       !.pc = "evaluated",
                       !.outcome = evaluate_single_scenario(scenario.expected_classification,
                                                            scenario.response)]
    /\ UNCHANGED <<state, metrics, req, probe>>

NextFocus ==
    \/ \E jitter \in Jitters : AnalyzeFocus(jitter)
    \/ \E reply \in FocusReplies : OtherReply(reply)
    \/ Evaluate

SpecFocus == InitFocus /\ [][NextFocus]_vars

(***************************************************************************)
(* FocusedEvaluator.run_evaluation: a run over RunLength scenarios.  The   *)
(* run asks GET /health, then posts the scenarios one after the other and  *)
(* appends each outcome to results; the report is computed in the step     *)
(* that appends the last outcome.  Fractions stand for the floats: a       *)
(* confidence c is the fraction c/ConfMax, and the aggregates are exact    *)
(* fractions [num, den] with den > 0.                                      *)
(***************************************************************************)
RECURSIVE GCD(_, _)
GCD(a, b) == IF b = 0 THEN a ELSE GCD(b, a % b)

\* the fraction num/den in lowest terms
Ratio(num, den) ==
    LET divisor == GCD(IF num < 0 THEN -num ELSE num, den)
    IN  [num |-> num \div divisor, den |-> den \div divisor]

Plus(a, b) == Ratio(a.num * b.den + b.num * a.den, a.den * b.den)

Times(a, b) == Ratio(a.num * b.num, a.den * b.den)

Same(a, b) == a.num * b.den = b.num * a.den

AtMost(a, b) == a.num * b.den <= b.num * a.den

RECURSIVE Sum(_)
Sum(numbers) == IF numbers = <<>> THEN 0 ELSE Head(numbers) + Sum(Tail(numbers))

Select(outcomes) == SelectSeq(outcomes, LAMBDA o : o.success)

\* the default of a correlation that was not computed
ZeroCorrelation == [computed |-> FALSE, defined |-> TRUE, sign |-> 0]

\* np.corrcoef(xs, ys)[0, 1]: not a number when xs or ys has no variance,
\* else a value of the sign of the covariance
Pearson(xs, ys) ==
    LET n == Len(xs)
        products == [i \in 1..n |-> xs[i] * ys[i]]
        covariance == n * Sum(products) - Sum(xs) * Sum(ys)
        variance(zs) == n * Sum([i \in 1..n |-> zs[i] * zs[i]]) - Sum(zs) * Sum(zs)
    IN  IF variance(xs) = 0 \/ variance(ys) = 0
        THEN [computed |-> TRUE, defined |-> FALSE, sign |-> 0]
        ELSE [computed |-> TRUE, defined |-> TRUE,
              sign |-> IF covariance > 0 THEN 1 ELSE IF covariance < 0 THEN -1 ELSE 0]

\* run_evaluation that computes the coefficient of any sample
confidence_correlation_of_any_sample(correctness, confidences) ==
    Pearson(correctness, confidences)

\* run_evaluation, "Calculate correlation between correctness and confidence"
confidence_correlation(correctness, confidences) ==
    IF Len(correctness) > 1 THEN Pearson(correctness, confidences) ELSE ZeroCorrelation

NoReport ==
    [kind |-> "none", error |-> "",
     classification_accuracy |-> Ratio(0, 1), confidence_calibration |-> Ratio(0, 1),
     confidence_correlation |-> ZeroCorrelation, final_score |-> Ratio(0, 1),
     total_tests |-> 0, successful_tests |-> 0]

ErrorReport(error) == [NoReport EXCEPT !.kind = "error", !.error = error]

\* run_evaluation that weighs the accuracy by 0.4 and the calibration by 0.6
final_score_weights_swapped(classification_accuracy, avg_confidence_quality) ==
    Times(Plus(Times(classification_accuracy, Ratio(CalibrationWeight, WeightScale)),
               Times(avg_confidence_quality, Ratio(AccuracyWeight, WeightScale))),
          Ratio(ScoreScale, 1))

\* (classification_accuracy * 0.6 + avg_confidence_quality * 0.4) * 100
final_score(classification_accuracy, avg_confidence_quality) ==
    Times(Plus(Times(classification_accuracy, Ratio(AccuracyWeight, WeightScale)),
               Times(avg_confidence_quality, Ratio(CalibrationWeight, WeightScale))),
          Ratio(ScoreScale, 1))

\* run_evaluation, "Calculate metrics" on; np.mean raises on a list that
\* holds a string
run_metrics(outcomes) ==
    LET successful_results == Select(outcomes)
        n == Len(successful_results)
        correctness == [i \in 1..n |->
                           IF successful_results[i].correct_classification THEN 1 ELSE 0]
        classification_accuracy == Ratio(Sum(correctness), n)
        confidence_qualities == [i \in 1..n |-> successful_results[i].confidence_quality]
        avg_confidence_quality ==
            Ratio(Sum([i \in 1..n |-> confidence_qualities[i].n]), ConfMax * n)
        confidences == [i \in 1..n |-> successful_results[i].confidence.n]
    IN  IF n = 0 THEN ErrorReport("No successful tests")
        ELSE IF \E i \in 1..n : confidence_qualities[i].t # "num"
        THEN [NoReport EXCEPT !.kind = "raised", !.error = "TypeError"]
        ELSE [kind |-> "scores", error |-> "",
              classification_accuracy |-> classification_accuracy,
              confidence_calibration |-> avg_confidence_quality,
              confidence_correlation |-> confidence_correlation(correctness, confidences),
              final_score |-> final_score(classification_accuracy, avg_confidence_quality),
              total_tests |-> Len(outcomes),
              successful_tests |-> n]

\* the answers to GET /health and to POST /analyze_focus during a run
RunHealthReplies ==
    {FocusRaised("ConnectError"), FocusResponse(503, "object", Absent, Absent),
     FocusResponse(200, "object", Absent, Absent)}

RunReplies ==
    {FocusRaised("ConnectError"),
     FocusResponse(500, "object", Absent, Absent),
     FocusResponse(200, "object", Str("focused"), Num(92)),
     FocusResponse(200, "object", Str("not_focused"), Num(88)),
     FocusResponse(200, "object", Str("focused"), Num(61)),
     FocusResponse(200, "object", Str("focused"), Num(ConfMax)),
     FocusResponse(200, "object", Str("not_focused"), Num(ConfMin)),
     FocusResponse(200, "object", Str("not_focused"), Absent),
     FocusResponse(200, "object", Str("Focused"), Str("high")),
     FocusResponse(200, "object", Str("focused"), Num(130))}

\* the expected classifications of the scenarios of a run
RunSuites == [1..RunLength -> {"focused", "not_focused"}]

InitRun ==
    /\ state = ServerState
    /\ metrics = NoMetrics
    /\ req = [r \in RequestIds |-> IdleRequest]
    /\ probe = [pc |-> "startup", count |-> 0, outcome |-> "none"]
    /\ scenario \in {[pc |-> "health", suite |-> suite, results |-> <<>>,
                      report |-> NoReport] : suite \in RunSuites}

\* run_evaluation, "Check server health"
RunHealth(reply) ==
    /\ scenario.pc = "health"
    /\ scenario' = IF reply.kind # "http"
                   THEN [scenario EXCEPT !.pc = "returned",
                                         !.report = ErrorReport("Cannot connect to server")]
                   ELSE IF reply.status # 200
                   THEN [scenario EXCEPT !.pc = "returned",
                                         !.report = ErrorReport("Server not healthy")]
                   ELSE [scenario EXCEPT !.pc = "running"]
    /\ UNCHANGED <<state, metrics, req, probe>>

\* one turn of the loop "Run all scenarios", and the metrics after the last
RunScenario(reply) ==
    /\ scenario.pc = "running"
    /\ LET i == Len(scenario.results) + 1
           result == evaluate_single_scenario(scenario.suite[i], reply)
           outcomes == Append(scenario.results, result)
       IN  scenario' = IF i < RunLength
                       THEN [scenario EXCEPT !.results = outcomes]
                       ELSE [scenario EXCEPT !.pc = "returned", !.results = outcomes,
                                             !.report = run_metrics(outcomes)]
    /\ UNCHANGED <<state, metrics, req, probe>>

NextRun ==
    \/ \E reply \in RunHealthReplies : RunHealth(reply)
    \/ \E reply \in RunReplies : RunScenario(reply)

SpecRun == InitRun /\ [][NextRun]_vars

(***************************************************************************)
(* evaluation.py: main checks the server's health and LLMAnalysisEvaluator *)
(* runs NumTests test cases in batches of Parallel.  asyncio.gather starts *)
(* one task per test case of the batch; a task posts its request, is       *)
(* suspended until the reply, and ends with its outcome.  When every task  *)
(* of the batch has ended, the loop appends the outcomes as gather returns *)
(* them, updates the metrics and starts the next batch.  finished lists    *)
(* the tasks in the order they ended.                                      *)
(***************************************************************************)
AnalyzeRaised(kind) == [kind |-> kind, status |-> 0, json |-> "none", category |-> ""]

AnalyzeResponse(status, json, category) ==
    [kind |-> "http", status |-> status, json |-> json, category |-> category]

AnalyzeReplies ==
    {AnalyzeRaised("ConnectError"),
     AnalyzeResponse(500, "object", ""),
     AnalyzeResponse(200, "invalid", ""),
     AnalyzeResponse(200, "object", "Programming"),
     AnalyzeResponse(200, "object", DefaultCategory)}

ExpectedCategory == "Programming"

\* evaluate_single, from the reply to POST /analyze on
evaluate_single(test_id, reply) ==
    IF reply.kind # "http"
    THEN [test_id |-> test_id, success |-> FALSE, error |-> reply.kind,
          category_match |-> FALSE]
    ELSE IF reply.status # 200
    THEN [test_id |-> test_id, success |-> FALSE,
          error |-> "HTTP " \o ToString(reply.status), category_match |-> FALSE]
    ELSE IF reply.json # "object"
    THEN [test_id |-> test_id, success |-> FALSE, error |-> "JSONDecodeError",
          category_match |-> FALSE]
    ELSE [test_id |-> test_id, success |-> TRUE, error |-> "",
          category_match |-> reply.category = ExpectedCategory]

EvaluationMetrics ==
    [total_tests |-> 0, successful_analyses |-> 0, failed_analyses |-> 0,
     error_types |-> <<>>, category_accuracy |-> Ratio(0, 1)]

\* _update_metrics that leaves a failed outcome out of total_tests
update_metrics_skipping_failures(tally, result) ==
    IF result.success
    THEN [tally EXCEPT !.total_tests = @ + 1, !.successful_analyses = @ + 1]
    ELSE [tally EXCEPT
             !.failed_analyses = @ + 1,
             !.error_types = IF result.error \in DOMAIN @
                             THEN [@ EXCEPT ![result.error] = @ + 1]
                             ELSE @ @@ (result.error :> 1)]

\* _update_metrics
update_metrics(tally, result) ==
    IF result.success
    THEN [tally EXCEPT !.total_tests = @ + 1, !.successful_analyses = @ + 1]
    ELSE [tally EXCEPT
             !.total_tests = @ + 1,
             !.failed_analyses = @ + 1,
             !.error_types = IF result.error \in DOMAIN @
                             THEN [@ EXCEPT ![result.error] = @ + 1]
                             ELSE @ @@ (result.error :> 1)]

RECURSIVE update_all(_, _)
update_all(tally, outcomes) ==
    IF outcomes = <<>> THEN tally
    ELSE update_all(update_metrics(tally, Head(outcomes)), Tail(outcomes))

\* _calculate_final_metrics, the category accuracy
calculate_final_metrics(tally, test_results) ==
    LET category_matches ==
            Cardinality({i \in 1..Len(test_results) :
                            test_results[i].success /\ test_results[i].category_match})
    IN  IF tally.successful_analyses > 0
        THEN [tally EXCEPT
                 !.category_accuracy = Ratio(category_matches, tally.successful_analyses)]
        ELSE tally

\* run_evaluation that gathers every remaining test case at once
batch_unbounded(i) == i..NumTests

\* test_cases[i:i+parallel], as indices from 1
batch(i) == i..Min(i + Parallel - 1, NumTests)

\* the outcomes of the batch in the order the tasks ended
results_as_completed(tasks, finished, i) ==
    LET ended == SelectSeq(finished, LAMBDA t : t \in batch(i))
    IN  [k \in 1..Len(ended) |-> tasks[ended[k]].outcome]

\* the outcomes asyncio.gather returns: in the order of the awaitables
gather(tasks, finished, i) ==
    [k \in 1..Cardinality(batch(i)) |-> tasks[i + k - 1].outcome]

NoTask == [pc |-> "waiting", reply |-> AnalyzeRaised("none"),
           outcome |-> evaluate_single(0, AnalyzeRaised("none"))]

StartBatch(tasks, i) ==
    [t \in 1..NumTests |-> IF t \in batch(i) THEN [tasks[t] EXCEPT !.pc = "created"]
                           ELSE tasks[t]]

InitBatch ==
    /\ state = ServerState
    /\ metrics = NoMetrics
    /\ req = [r \in RequestIds |-> IdleRequest]
    /\ probe = [pc |-> "startup", count |-> 0, outcome |-> "none"]
    /\ scenario = [pc |-> "health", next |-> 1, tasks |-> [t \in 1..NumTests |-> NoTask],
                   finished |-> <<>>, test_results |-> <<>>,
                   evaluation_metrics |-> EvaluationMetrics]

\* main, "Checking server health": an exception ends main, any response
\* lets the evaluation start
BatchHealth(reply) ==
    /\ scenario.pc = "health"
    /\ scenario' = IF reply.kind # "http"
                   THEN [scenario EXCEPT !.pc = "aborted"]
                   ELSE [scenario EXCEPT !.pc = "gather", !.tasks = StartBatch(@, 1)]
    /\ UNCHANGED <<state, metrics, req, probe>>

\* a task of the batch runs up to its POST /analyze
Post(t) ==
    /\ scenario.pc = "gather"
    /\ scenario.tasks[t].pc = "created"
    /\ scenario' = [scenario EXCEPT !.tasks[t].pc = "inflight"]
    /\ UNCHANGED <<state, metrics, req, probe>>

\* the reply to a task's request arrives and the task ends
TaskReply(t, reply) ==
    /\ scenario.pc = "gather"
    /\ scenario.tasks[t].pc = "inflight"
    /\ scenario' = [scenario EXCEPT !.tasks[t].pc = "done",
                                    !.tasks[t].reply = reply,
                                    !.tasks[t].outcome = evaluate_single(t, reply),
                                    !.finished = Append(@, t)]
    /\ UNCHANGED <<state, metrics, req, probe>>

\* gather returns: the outcomes are recorded and the next batch starts, or
\* the final metrics are calculated
Collect ==
    /\ scenario.pc = "gather"
    /\ \A t \in batch(scenario.next) : scenario.tasks[t].pc = "done"
    /\ LET results == gather(scenario.tasks, scenario.finished, scenario.next)
           test_results == scenario.test_results \o results
           tally == update_all(scenario.evaluation_metrics, results)
           i == scenario.next + Parallel
       IN  scenario' =
               IF i <= NumTests
               THEN [scenario EXCEPT !.next = i, !.test_results = test_results,
                                     !.evaluation_metrics = tally,
                                     !.tasks = StartBatch(@, i)]
               ELSE [scenario EXCEPT
                        !.pc = "returned", !.next = i, !.test_results = test_results,
                        !.evaluation_metrics = calculate_final_metrics(tally, test_results)]
    /\ UNCHANGED <<state, metrics, req, probe>>

NextBatch ==
    \/ \E reply \in RunHealthReplies : BatchHealth(reply)
    \/ \E t \in 1..NumTests : Post(t)
    \/ \E t \in 1..NumTests, reply \in AnalyzeReplies : TaskReply(t, reply)
    \/ Collect

SpecBatch == InitBatch /\ [][NextBatch]_vars

(***************************************************************************)
(* Properties                                                              *)
(***************************************************************************)
KeyOf(rq) == CacheKey(rq.text, rq.app_name, rq.model)

Clamp(x, lo, hi) == Min(hi, Max(lo, x))

Served(r) == req[r].pc = "done" /\ req[r].status # 400

\* C1: every result returned with status 200 has its confidence in [0,1] and
\* its productivity score in [0,10], on the backend, cache and heuristic paths.
C1_ResultInBounds ==
    \A r \in RequestIds :
        req[r].status = 200 =>
            /\ ConfMin <= req[r].result.confidence
            /\ req[r].result.confidence <= ConfMax
            /\ ScoreMin <= req[r].result.productivity_score
            /\ req[r].result.productivity_score <= ScoreMax

\* a result served from the cache whose cached backend score was over 10
C1_Witness ==
    \E r \in RequestIds :
        /\ req[r].status = 200
        /\ req[r].engine = "cache"
        /\ req[r].analysis.productivity_score.n > ScoreMax

\* C2: whatever score s and confidence c the analysis carries, the request is
\* answered 200 with score min(10, max(0, s)) and confidence min(1, max(0, c)).
C2_ClampingLaw ==
    \A r \in RequestIds :
        LET s == Get(req[r].analysis.productivity_score, Num(DefaultScore))
            c == Get(req[r].analysis.confidence, Num(DefaultConfidence))
        IN  (Served(r) /\ req[r].analysis.shape = "object" /\ s.t = "num" /\ c.t = "num") =>
                /\ req[r].status = 200
                /\ req[r].result.productivity_score = Clamp(s.n, ScoreMin, ScoreMax)
                /\ req[r].result.confidence = Clamp(c.n, ConfMin, ConfMax)

\* the step in which request r is rejected
Rejecting(r) == req[r].pc = "idle" /\ req'[r].status = 400

\* C3 as stated: a rejected request increments no counter, the request count
\* included, and leaves the cache, the availability flag and the model set alone.
C3_RejectionChangesNothing ==
    [][\A r \in RequestIds : Rejecting(r) => (state' = state /\ metrics' = metrics)]_vars

\* C3 as amended: a rejected request leaves every ServerState field as it was
\* (total analyses, total errors, cache hits, cache misses, the cache, the
\* availability flag, the known models); of the metrics it adds one to the
\* request counter and nothing else.
C3_RejectionKeepsServerState ==
    [][\A r \in RequestIds :
          Rejecting(r) =>
              /\ state' = state
              /\ metrics' = [metrics EXCEPT !.analysis_requests = @ + 1]]_vars

\* a request was rejected after another one had been analysed
C3_Witness ==
    \E r \in RequestIds : req[r].status = 400 /\ state.total_analyses > 0

\* C4 as stated: a request is rejected exactly when its text has fewer than
\* 10 characters.
C4_RejectedIffShort ==
    \A r \in RequestIds :
        req[r].pc # "idle" => (req[r].status = 400 <=> Len(req[r].text) < MinTextLen)

\* C4 as amended: a request is rejected exactly when its text, with leading
\* and trailing whitespace removed, has fewer than 10 characters.
C4_RejectedIffStrippedShort ==
    \A r \in RequestIds :
        req[r].pc # "idle" =>
            (req[r].status = 400 <=> Len(Strip(req[r].text)) < MinTextLen)

\* a text of 10 or more characters was rejected, and one of exactly 10 accepted
C4_Witness ==
    /\ \E r \in RequestIds : req[r].status = 400 /\ Len(req[r].text) >= MinTextLen
    /\ \E r \in RequestIds : req[r].status = 200 /\ Len(req[r].text) = MinTextLen

\* C5: a request whose backend call failed, or returned something that is not
\* a JSON object, is answered 200 by the heuristic classifier.
C5_BackendFailureFallsBack ==
    \A r \in RequestIds :
        (/\ req[r].pc = "done"
         /\ req[r].generated
         /\ (req[r].engine = "heuristic" \/ req[r].analysis.shape # "object")) =>
            (req[r].status = 200 /\ req[r].engine = "heuristic")

\* C6: at the moment of decision, a request whose backend is flagged
\* unavailable or whose model is unknown is served by the heuristic without a
\* cache lookup or a generate call; a lookup or a generate call is made only
\* with the backend flagged available and the model known; each request pulls
\* at most once.
C6_PathSelection ==
    \A r \in RequestIds :
        /\ req[r].pulls <= 1
        /\ (req[r].looked_up \/ req[r].generated) =>
               (req[r].decided /\ req[r].decided_available /\ req[r].decided_known)
        /\ (req[r].decided /\ ~(req[r].decided_available /\ req[r].decided_known)) =>
               /\ req[r].pc = "done"
               /\ req[r].status = 200
               /\ req[r].engine = "heuristic"
               /\ ~req[r].looked_up
               /\ ~req[r].generated

\* the pull of an unknown model failed with the backend flagged available
C6_Witness ==
    \E r \in RequestIds :
        /\ req[r].pulls = 1
        /\ req[r].decided
        /\ req[r].decided_available
        /\ ~req[r].decided_known
        /\ req[r].status = 200
        /\ req[r].engine = "heuristic"

\* C7: a result produced by the heuristic classifier carries model_used
\* "heuristic" and confidence 0.3.
C7_HeuristicIsLabelled ==
    \A r \in RequestIds :
        (req[r].status = 200 /\ req[r].engine = "heuristic") =>
            /\ req[r].result.model_used = HeuristicSentinel
            /\ req[r].result.confidence = FallbackConfidence

BackendOutputs == {JsonTable[i].value : i \in 1..Len(JsonTable)}
HeuristicOutputs == {FallbackOfInput[p] : p \in DOMAIN FallbackOfInput}

\* C8: every cache entry is the parsed output of a backend reply, under the
\* key of a request; no heuristic output is ever in the cache.
C8_CacheHoldsBackendOutput ==
    \A i \in 1..Len(state.analysis_cache) :
        /\ state.analysis_cache[i].value \in BackendOutputs
        /\ state.analysis_cache[i].value \notin HeuristicOutputs
        /\ \E input \in Inputs : state.analysis_cache[i].key = KeyOf(input)

\* a backend call failed, its request fell back, and the cache holds entries
\* but none under that request's key
C8_Witness ==
    \E r \in RequestIds :
        /\ req[r].status = 200
        /\ req[r].generated
        /\ req[r].engine = "heuristic"
        /\ state.analysis_cache # <<>>
        /\ ~InCache(state.analysis_cache, KeyOf(req[r]))

\* C9: when a request q has been served from the backend and a request r with
\* the same (first 100 characters of text, app_name, model) then reaches the
\* cache lookup, r is a hit: it gets the cached analysis, no generate call is
\* made, the hit counter grows by one and the miss counter stays.
C9_SecondCallHits ==
    [][\A r, q \in RequestIds :
          (/\ q # r
           /\ req[q].pc = "done"
           /\ req[q].engine = "backend"
           /\ ~req[r].looked_up
           /\ req'[r].looked_up
           /\ KeyOf(req'[r]) = KeyOf(req[q])) =>
              /\ req'[r].engine = "cache"
              /\ ~req'[r].generated
              /\ InCache(state.analysis_cache, KeyOf(req[q]))
              /\ req'[r].analysis = CacheGet(state.analysis_cache, KeyOf(req[q]))
              /\ state'.cache_hits = state.cache_hits + 1
              /\ state'.cache_misses = state.cache_misses]_vars

\* two texts that differ only after their first 100 characters: the first
\* was served from the backend with a batch evicted, the second from the cache
C9_Witness ==
    \E r, q \in RequestIds :
        /\ req[q].pc = "done"
        /\ req[q].engine = "backend"
        /\ req[r].pc = "done"
        /\ req[r].engine = "cache"
        /\ req[r].text # req[q].text
        /\ KeyOf(req[r]) = KeyOf(req[q])
        /\ Len(state.analysis_cache) < CacheMax

\* C10: at every suspension point the cache holds at most 100 entries.
C10_CacheBounded == Len(state.analysis_cache) <= CacheMax

\* a 101st key was stored and a batch evicted; a further key was stored
C10_Witness == Len(state.analysis_cache) = CacheMax - EvictBatch + 2

\* the step in which request r, waiting for the backend, stores its result
\* under a key the cache does not hold
StoresNewKey(r) ==
    /\ req[r].pc = "generate"
    /\ req'[r].engine = "backend"
    /\ ~InCache(state.analysis_cache, KeyOf(req[r]))

\* C11: storing a result under a new key in a cache of 100 entries evicts the
\* 10 entries inserted first, in one step, and leaves the other 90 in their
\* order followed by the new entry (91 in all); a cache hit leaves the cache,
\* and so the order of eviction, as it was.
C11_OldestBatchEvicted ==
    [][\A r \in RequestIds :
          /\ (StoresNewKey(r) /\ Len(state.analysis_cache) = CacheMax) =>
                 /\ state'.analysis_cache =
                        SubSeq(state.analysis_cache, EvictBatch + 1, CacheMax)
                        \o <<[key |-> KeyOf(req[r]), value |-> req'[r].analysis]>>
                 /\ Len(state'.analysis_cache) = CacheMax - EvictBatch + 1
          /\ (~req[r].looked_up /\ req'[r].engine = "cache") =>
                 state'.analysis_cache = state.analysis_cache]_vars

\* the oldest entry was hit, and the batch evicted afterwards took it all the same
C11_Witness ==
    \E r, q \in RequestIds :
        /\ req[r].engine = "cache"
        /\ KeyOf(req[r]) = WarmCache[1].key
        /\ req[q].engine = "backend"
        /\ Len(state.analysis_cache) = CacheMax - EvictBatch + 1
        /\ ~InCache(state.analysis_cache, KeyOf(req[r]))

\* the step in which a probe of the monitor (at start-up or periodic) ends
ProbeEnds == probe.pc \in {"startup", "probe"} /\ probe'.pc = "sleep"

\* C12: a probe that fails (timeout or connection error, a status other than
\* 200, a malformed body) leaves the availability flag false, whatever the
\* flag was before the probe.
C12_FailedProbeDegrades ==
    [][(ProbeEnds /\ probe'.outcome # "ok") => ~state'.ollama_available]_vars

\* the model lists of the replies that make a probe succeed
ListedModels ==
    {Get(reply.field, List(<<>>)).l : reply \in {h \in HealthReplies : ProbeOutcome(h) = "ok"}}

\* C13: right after a failed probe the known-model set is empty and /health
\* reports model_loaded false; right after a successful probe the set is a
\* list the backend sent and the flag is true.
C13_FailedProbeClearsModels ==
    [][ProbeEnds =>
          IF probe'.outcome # "ok"
          THEN /\ state'.available_models = <<>>
               /\ ~health_check(state').model_loaded
          ELSE /\ state'.available_models \in ListedModels
               /\ state'.ollama_available]_vars

\* C14: in every step (of a request, a probe or a pull) none of total
\* analyses, total errors, cache hits and cache misses decreases.
C14_CountersMonotone ==
    [][/\ state'.total_analyses >= state.total_analyses
       /\ state'.total_errors >= state.total_errors
       /\ state'.cache_hits >= state.cache_hits
       /\ state'.cache_misses >= state.cache_misses]_vars

\* on top of the CacheMax requests that filled the cache: after a hit answered
\* 200, a pull, a miss answered 500 and a periodic probe, all four counters
\* have grown
C14_Witness ==
    /\ state.total_analyses > CacheMax
    /\ state.total_errors > 0
    /\ state.cache_hits > 0
    /\ state.cache_misses > CacheMax
    /\ probe.count > 0
    /\ \E r \in RequestIds : req[r].pulls > 0

\* the categories of the keyword sets, in the order the claim gives them
CategoryOrder ==
    <<"Programming", "Communication", "Research", "Documentation", "Design", "Media">>

\* the i-th keyword set has a keyword occurring in the lower-cased text
SetOccurs(i, text) == \E kw \in KeywordTable[i].kws : Contains(Lower(text), kw)

\* C15: the heuristic returns the category of the first keyword set, in the
\* order Programming, Communication, Research, Documentation, Design, Media,
\* that has a keyword in the lower-cased text, whatever later sets match; with
\* no set matching it returns Other with score 5.0.
C15_FirstMatchWins ==
    scenario.pc = "returned" =>
        /\ \A i \in 1..Len(CategoryOrder) :
               (SetOccurs(i, scenario.text) /\ \A j \in 1..(i - 1) : ~SetOccurs(j, scenario.text)) =>
                   scenario.analysis.category = Str(CategoryOrder[i])
        /\ (\A i \in 1..Len(CategoryOrder) : ~SetOccurs(i, scenario.text)) =>
               /\ scenario.analysis.category = Str("Other")
               /\ scenario.analysis.productivity_score = Num(50)

\* one Programming keyword after two Communication keywords: Programming
C15_Witness ==
    /\ scenario.pc = "returned"
    /\ scenario.text = "email chatting Code"
    /\ scenario.analysis.category = Str("Programming")

\* requests r and q were both answered by the heuristic classifier
BothHeuristic(r, q) ==
    /\ req[r].pc = "done" /\ req[r].engine = "heuristic"
    /\ req[q].pc = "done" /\ req[q].engine = "heuristic"

RECURSIVE QualifyingTokens(_)
QualifyingTokens(tokens) ==
    IF tokens = <<>> THEN <<>>
    ELSE (IF Len(Head(tokens)) > 5 /\ Prefix(Head(tokens), 4) # "http"
          THEN <<Head(tokens)>> ELSE <<>>)
         \o QualifyingTokens(Tail(tokens))

\* C19: the key activities of the heuristic classifier are the first 5
\* whitespace-separated tokens of the text, in their order in the text, that
\* are longer than 5 characters and do not start with "http"; with no such
\* token they are a placeholder list; they are never empty and never more
\* than 5.
C19_KeyActivitiesInTextOrder ==
    scenario.pc = "returned" =>
        LET qualifying == QualifyingTokens(Split(scenario.text))
            activities == scenario.analysis.key_activities
        IN  /\ activities.t = "list"
            /\ Len(activities.l) >= 1
            /\ Len(activities.l) <= 5
            /\ qualifying # <<>> =>
                   activities.l = SubSeq(qualifying, 1, Min(5, Len(qualifying)))
            /\ qualifying = <<>> =>
                   \A i \in 1..Len(activities.l) :
                       ~InSeq(activities.l[i], Split(Lower(scenario.text)))

\* the mock server has classified the scenario
Classified == scenario.pc \in {"replied", "evaluated"} /\ scenario.served_by = "mock"

\* kw occurs in the scenario's app name or in its text, all lower-cased
InAppOrText(kw) ==
    Contains(Lower(scenario.app_name), kw) \/ Contains(Lower(scenario.screen_content), kw)

Distracted == \E kw \in distractions : InAppOrText(kw)

GoalRelated ==
    \E i \in 1..Len(focus_app_mappings) :
        /\ Contains(Lower(scenario.user_focus), focus_app_mappings[i].key)
        /\ \E kw \in focus_app_mappings[i].related : InAppOrText(kw)

\* C17: the focus verdict is not_focused/0.85 whenever a distraction keyword
\* occurs in the app name or the text, also when a related keyword of the goal
\* occurs; otherwise focused/0.88 when the goal contains a key of the focus
\* table one of whose related keywords occurs; otherwise one of the three
\* verdicts of the work-keyword branch.  Goal "Studying Computer Science" gives
\* not_focused/0.85 with app "YouTube" and focused/0.88 with app "Visual Studio
\* Code" and a text containing "class BinaryTree".
C17_FocusDecisionTree ==
    Classified =>
        /\ Distracted => scenario.verdict = Verdict("not_focused", 85)
        /\ (~Distracted /\ GoalRelated) => scenario.verdict = Verdict("focused", 88)
        /\ (~Distracted /\ ~GoalRelated) =>
               scenario.verdict \in {Verdict("focused", 72), Verdict("focused", 55),
                                     Verdict("not_focused", 65)}
        /\ (scenario.user_focus = "Studying Computer Science" /\ scenario.app_name = "YouTube") =>
               scenario.verdict = Verdict("not_focused", 85)
        /\ (/\ scenario.user_focus = "Studying Computer Science"
            /\ scenario.app_name = "Visual Studio Code"
            /\ Contains(scenario.screen_content, "class BinaryTree")) =>
               scenario.verdict = Verdict("focused", 88)

\* a distraction in the text while the app is one related to the goal
C17_Witness ==
    /\ Classified
    /\ Distracted
    /\ GoalRelated
    /\ scenario.app_name = "Visual Studio Code"
    /\ scenario.verdict = Verdict("not_focused", 85)

\* the scenario reached the last branch of the decision tree
WorkBranch == Classified /\ ~Distracted /\ ~GoalRelated

\* C18 as stated: in the last branch the number of occurrences of work
\* keywords in the text decides: 3 or more give focused/0.72, 1 or 2 give
\* focused/0.55, none gives not_focused/0.65.
C18_WorkOccurrencesDecide ==
    WorkBranch =>
        LET n == TotalOccurrences(Lower(scenario.screen_content), work_keywords)
        IN  scenario.verdict = IF n >= 3 THEN Verdict("focused", 72)
                               ELSE IF n >= 1 THEN Verdict("focused", 55)
                               ELSE Verdict("not_focused", 65)

\* C18 as amended: in the last branch the number of distinct work keywords
\* that occur in the text decides, a keyword counting once however often it
\* occurs: 3 or more give focused/0.72, 1 or 2 give focused/0.55, none gives
\* not_focused/0.65.
C18_DistinctWorkKeywordsDecide ==
    WorkBranch =>
        LET n == Cardinality({kw \in work_keywords :
                                Occurrences(Lower(scenario.screen_content), kw) > 0})
        IN  scenario.verdict = IF n >= 3 THEN Verdict("focused", 72)
                               ELSE IF n >= 1 THEN Verdict("focused", 55)
                               ELSE Verdict("not_focused", 65)

\* one work keyword occurring three times: focused/0.55
C18_Witness ==
    /\ WorkBranch
    /\ TotalOccurrences(Lower(scenario.screen_content), work_keywords) >= 3
    /\ scenario.verdict = Verdict("focused", 55)

\* C20: a successful outcome has correct = (predicted = expected) and a
\* confidence quality equal to the confidence when correct and to 1 minus the
\* confidence when not; with the confidence in [0,1] the quality is in [0,1].
C20_ConfidenceQuality ==
    (scenario.pc = "evaluated" /\ scenario.outcome.success) =>
        LET o == scenario.outcome
        IN  /\ o.correct_classification = (o.predicted = o.expected)
            /\ o.expected = scenario.expected_classification
            /\ o.correct_classification => o.confidence_quality = o.confidence
            /\ ~o.correct_classification =>
                   /\ o.confidence.t = "num"
                   /\ o.confidence_quality = Num(100 - o.confidence.n)
            /\ (o.confidence.t = "num" /\ 0 <= o.confidence.n /\ o.confidence.n <= 100) =>
                   /\ o.confidence_quality.t = "num"
                   /\ 0 <= o.confidence_quality.n
                   /\ o.confidence_quality.n <= 100

\* the mock's verdict was wrong: the quality is 1 minus its confidence
C20_Witness ==
    /\ scenario.pc = "evaluated"
    /\ scenario.served_by = "mock"
    /\ scenario.outcome.success
    /\ ~scenario.outcome.correct_classification
    /\ scenario.outcome.confidence = Num(85)
    /\ scenario.outcome.confidence_quality = Num(15)

(***************************************************************************)
(* The harness run                                                         *)
(***************************************************************************)
Successful == Select(scenario.results)

CorrectCount ==
    Cardinality({i \in 1..Len(Successful) : Successful[i].correct_classification})

QualitySum == Sum([i \in 1..Len(Successful) |-> Successful[i].confidence_quality.n])

Scored == scenario.pc = "returned" /\ scenario.report.kind = "scores"

ConfidencesInUnitInterval ==
    \A i \in 1..Len(Successful) :
        /\ Successful[i].confidence.t = "num"
        /\ ConfMin <= Successful[i].confidence.n
        /\ Successful[i].confidence.n <= ConfMax

ExampleRun ==
    /\ Scored
    /\ Len(Successful) = 3
    /\ \A i \in 1..3 : Successful[i].correct_classification
    /\ [i \in 1..3 |-> Successful[i].confidence.n] = <<92, 88, 61>>

\* C21: the final score of a run is 100 * (0.6 * accuracy + 0.4 * mean
\* confidence quality), where the accuracy is the number of correct outcomes
\* over the number of successful outcomes; it lies in [0, 100] when every
\* confidence lies in [0, 1]; three correct outcomes with confidences 0.92,
\* 0.88 and 0.61 give accuracy 1, calibration 0.803 and a final score of
\* 92.1 after rounding.
C21_FinalScore ==
    Scored =>
        /\ Same(scenario.report.classification_accuracy,
                Ratio(CorrectCount, Len(Successful)))
        /\ Same(scenario.report.confidence_calibration,
                Ratio(QualitySum, ConfMax * Len(Successful)))
        /\ Same(scenario.report.final_score,
                Ratio(60 * ConfMax * CorrectCount + 40 * QualitySum,
                      ConfMax * Len(Successful)))
        /\ ConfidencesInUnitInterval =>
               /\ AtMost(Ratio(0, 1), scenario.report.final_score)
               /\ AtMost(scenario.report.final_score, Ratio(100, 1))
        /\ ExampleRun =>
               /\ Same(scenario.report.classification_accuracy, Ratio(1, 1))
               /\ AtMost(Ratio(8025, 10000), scenario.report.confidence_calibration)
               /\ AtMost(scenario.report.confidence_calibration, Ratio(8035, 10000))
               /\ AtMost(Ratio(9205, 100), scenario.report.final_score)
               /\ AtMost(scenario.report.final_score, Ratio(9215, 100))

C21_Witness ==
    /\ ExampleRun
    /\ Len(scenario.results) = RunLength
    /\ [i \in 1..3 |-> Successful[i].predicted] = <<"focused", "not_focused", "focused">>

\* C22: a run with fewer than 2 successful outcomes reports the correlation
\* 0: with one successful outcome the coefficient is not computed and the
\* report carries 0, with none the run reports no scores at all; the
\* coefficient is computed exactly when 2 or more outcomes are successful.
C22_CorrelationZeroBelowTwo ==
    /\ (Scored /\ Len(Successful) < 2) =>
           scenario.report.confidence_correlation = ZeroCorrelation
    /\ Scored => (scenario.report.confidence_correlation.computed <=> Len(Successful) >= 2)
    /\ (scenario.pc = "returned" /\ Len(scenario.results) = RunLength
            /\ Len(Successful) = 0) =>
           /\ scenario.report.kind = "error"
           /\ scenario.report.confidence_correlation = ZeroCorrelation

C22_Witness ==
    /\ Scored
    /\ Len(scenario.results) = RunLength
    /\ Len(Successful) = 1

(***************************************************************************)
(* The batch harness                                                       *)
(***************************************************************************)
Recorded == scenario.test_results

FailedOutcomes(error) ==
    {i \in 1..Len(Recorded) : ~Recorded[i].success /\ Recorded[i].error = error}

TransportOrStatusFailure(reply) == reply.kind # "http" \/ reply.status # 200

\* C23: a test case that ends in an exception or in a response other than
\* 200 is recorded as unsuccessful; after every recorded outcome the total
\* equals successes plus failures, every error message is tallied as often
\* as outcomes failed with it, and the accuracy is taken over the successful
\* outcomes only.
C23_FailuresTallied ==
    LET tally == scenario.evaluation_metrics
        failures == {i \in 1..Len(Recorded) : ~Recorded[i].success}
    IN  /\ \A i \in 1..Len(Recorded) :
               TransportOrStatusFailure(scenario.tasks[Recorded[i].test_id].reply) =>
                   /\ ~Recorded[i].success
                   /\ Recorded[i].error \in DOMAIN tally.error_types
        /\ tally.total_tests = Len(Recorded)
        /\ tally.total_tests = tally.successful_analyses + tally.failed_analyses
        /\ tally.failed_analyses = Cardinality(failures)
        /\ \A i \in failures : Recorded[i].error \in DOMAIN tally.error_types
        /\ \A error \in DOMAIN tally.error_types :
               tally.error_types[error] = Cardinality(FailedOutcomes(error))
        /\ (scenario.pc = "returned" /\ tally.successful_analyses > 0) =>
               Same(tally.category_accuracy,
                    Ratio(Cardinality({i \in 1..Len(Recorded) :
                                          Recorded[i].success /\ Recorded[i].category_match}),
                          Len(Recorded) - Cardinality(failures)))

C23_Witness ==
    /\ scenario.pc = "returned"
    /\ scenario.evaluation_metrics.successful_analyses = 2
    /\ "ConnectError" \in DOMAIN scenario.evaluation_metrics.error_types
    /\ "HTTP 500" \in DOMAIN scenario.evaluation_metrics.error_types
    /\ scenario.evaluation_metrics.category_accuracy = Ratio(1, 2)

InFlight == {t \in 1..NumTests : scenario.tasks[t].pc = "inflight"}

Submitted(t) == scenario.tasks[t].pc # "waiting"

BatchOf(t) == (t - 1) \div Parallel

\* C24: at most Parallel requests are in flight at any time, and no test
\* case of a later batch is submitted before every test case of the batches
\* before it has ended.
C24_BoundedBatches ==
    /\ Cardinality(InFlight) <= Parallel
    /\ \A t, u \in 1..NumTests :
           (BatchOf(t) < BatchOf(u) /\ Submitted(u)) => scenario.tasks[t].pc = "done"

C24_Witness ==
    /\ scenario.next > 1
    /\ Cardinality(InFlight) = Parallel
    /\ \A t \in InFlight : BatchOf(t) > 0

\* C25: the i-th recorded outcome is the outcome of the i-th test case, in
\* whatever order the tasks of a batch ended, and when the run has returned
\* one outcome is recorded for every test case.
C25_RecordedInSubmissionOrder ==
    /\ \A i \in 1..Len(Recorded) :
           /\ Recorded[i].test_id = i
           /\ Recorded[i] = scenario.tasks[i].outcome
    /\ scenario.evaluation_metrics.total_tests = Len(Recorded)
    /\ scenario.pc = "returned" => Len(Recorded) = NumTests

C25_Witness ==
    /\ scenario.pc = "returned"
    /\ Len(Recorded) = NumTests
    /\ \E j, k \in 1..Len(scenario.finished) :
           j < k /\ scenario.finished[j] > scenario.finished[k]

NeverReached == \A t \in 1..NumTests : scenario.tasks[t].reply.kind = "ConnectError"

\* C26: a run in which the server could not be reached ends with a
\* top-level error and reports no scores: the evaluator returns its report
\* only when at least one request was answered.
C26_UnreachableAborts == scenario.pc = "returned" => ~NeverReached

(***************************************************************************)
(* The service's statistics and cache under concurrent requests            *)
(***************************************************************************)
Lookups == state.cache_hits + state.cache_misses

\* C27: GET /stats reports cache_hit_rate = hits / (hits + misses), and 0
\* when no lookup has happened; the rate lies in [0, 1].
C27_CacheHitRate ==
    LET rate == get_statistics(state).cache_hit_rate
    IN  /\ rate.den > 0
        /\ Lookups = 0 => rate.num = 0
        /\ Lookups > 0 => rate.num * Lookups = state.cache_hits * rate.den
        /\ 0 <= rate.num
        /\ rate.num <= rate.den

C27_Witness ==
    /\ state.cache_hits > 0
    /\ state.cache_misses > 0
    /\ get_statistics(state).cache_hit_rate.den = Lookups

Answered == {r \in RequestIds : req[r].pc = "done" /\ req[r].status = 200}

LookedUp == {r \in RequestIds : req[r].looked_up}

CachedKeys == {state.analysis_cache[i].key : i \in 1..Len(state.analysis_cache)}

\* C28: on top of the CacheMax requests that filled the cache, under every
\* interleaving of the requests and the probes at their suspension points,
\* total analyses has grown by the number of requests answered 200, hits
\* plus misses by the number of requests that looked the cache up, and every
\* key of the cache is present once.
C28_NoLostUpdate ==
    /\ state.total_analyses = CacheMax + Cardinality(Answered)
    /\ Lookups = CacheMax + Cardinality(LookedUp)
    /\ Cardinality(CachedKeys) = Len(state.analysis_cache)

C28_Witness ==
    /\ Answered = RequestIds
    /\ \A r \in RequestIds : req[r].looked_up /\ req[r].engine = "backend"
    /\ state.total_analyses = CacheMax + NumRequests
    /\ Len(state.analysis_cache) = CacheMax - EvictBatch + NumRequests
    /\ probe.count > 0

ServedFromCache(r) == req[r].engine # "cache" /\ req'[r].engine = "cache"

\* C29: the step that serves a request from the cache adds one to the cache
\* hits and leaves total analyses, total errors and cache misses as they
\* were; the request makes no backend call.
C29_HitOnlyCountsHit ==
    [][\A r \in RequestIds :
           ServedFromCache(r) =>
               /\ state'.cache_hits = state.cache_hits + 1
               /\ state'.total_analyses = state.total_analyses
               /\ state'.total_errors = state.total_errors
               /\ state'.cache_misses = state.cache_misses
               /\ ~req'[r].generated]_vars

\* C30: the value stored under a key stays the same from the key's
\* insertion to its eviction: in no step does a key that stays in the cache
\* change its value.
C30_EntriesImmutable ==
    [][\A i \in 1..Len(state.analysis_cache), j \in 1..Len(state'.analysis_cache) :
           state.analysis_cache[i].key = state'.analysis_cache[j].key =>
               state.analysis_cache[i].value = state'.analysis_cache[j].value]_vars

(***************************************************************************)
(* The result's label, the probes and the vocabulary                       *)
(***************************************************************************)
\* C31: a result that the backend or the cache produced carries the
\* requested model id and never the heuristic's label, whatever the probes
\* did to the availability flag while the backend call was outstanding.
C31_BackendResultLabelled ==
    \A r \in RequestIds :
        (/\ req[r].pc = "done"
         /\ req[r].status = 200
         /\ req[r].engine \in {"backend", "cache"}) =>
            /\ req[r].result.model_used = req[r].model
            /\ req[r].result.model_used # HeuristicSentinel

Arrives(r) == req[r].pc = "idle" /\ req'[r].pc # "idle" /\ req'[r].status # 400

Vocabulary ==
    {"Programming", "Communication", "Research", "Documentation", "Design", "Media",
     "System", "Other"}

\* C33: the category of every result returned by /analyze is one of the
\* eight categories of the vocabulary, whatever the backend answered.
C33_CategoryInVocabulary ==
    \A r \in RequestIds :
        (req[r].pc = "done" /\ req[r].status = 200) =>
            req[r].result.category \in Vocabulary

ByHeuristic(r) == req[r].pc = "done" /\ req[r].engine = "heuristic"

\* C34: a valid request that the heuristic serves is answered 200 with a
\* category of the vocabulary, a score in [0, 10] and a confidence in
\* [0, 1], and it is never counted as an error: total errors counts the
\* requests answered 500, none of which the heuristic served.
C34_HeuristicNeverFails ==
    /\ \A r \in RequestIds :
           ByHeuristic(r) =>
               /\ req[r].status = 200
               /\ req[r].result.category \in Vocabulary
               /\ ScoreMin <= req[r].result.productivity_score
               /\ req[r].result.productivity_score <= ScoreMax
               /\ ConfMin <= req[r].result.confidence
               /\ req[r].result.confidence <= ConfMax
    /\ state.total_errors =
           Cardinality({r \in RequestIds : req[r].pc = "done" /\ req[r].status = 500})

C34_Witness ==
    /\ \A r \in RequestIds : ByHeuristic(r)
    /\ \E r \in RequestIds : req[r].generated
    /\ \E r \in RequestIds : ~req[r].decided_available
    /\ state.total_errors = 0

(***************************************************************************)
(* The analysis log                                                        *)
(***************************************************************************)
Logged == scenario.written \cup scenario.failed

LogRuns(r) == r \notin Logged /\ r \in scenario'.written \cup scenario'.failed

\* C35: the log task of a request runs only after the request's result was
\* built and counted in total analyses, and its run, failed or not, changes
\* neither the request's result nor any counter of the service.
C35_LogIsFireAndForget ==
    [][\A r \in RequestIds :
           LogRuns(r) =>
               /\ req[r].pc = "done"
               /\ req[r].status = 200
               /\ req[r].result # NoResult
               /\ state.total_analyses =
                      Cardinality({q \in RequestIds : req[q].pc = "done" /\ req[q].status = 200})
               /\ state' = state
               /\ metrics' = metrics
               /\ req' = req]_vars

C35_Witness ==
    /\ scenario.failed # {}
    /\ \A r \in scenario.failed : req[r].status = 200 /\ req[r].result # NoResult
    /\ state.total_errors = 0
    /\ state.total_analyses = NumRequests

\* C36: every request whose log task wrote its entry has a file of its own:
\* the entry is still in the log directory, however close in time another
\* request was logged.
C36_OneFilePerRequest ==
    \A r \in scenario.written :
        \E name \in DOMAIN scenario.files : scenario.files[name].writer = r

(***************************************************************************)
(* The cache counters, the cache key and the error rate                    *)
(***************************************************************************)
LooksUp(r) == ~req[r].looked_up /\ req'[r].looked_up

CacheCountersUnchanged ==
    /\ state'.cache_hits = state.cache_hits
    /\ state'.cache_misses = state.cache_misses

\* C37: a request that the heuristic serves because the backend is flagged
\* unavailable or the model is unknown leaves the cache and both cache
\* counters as they are; the counters change only in the lookup of a request
\* on the backend path, and a lookup adds one to exactly one of them.
C37_CountersChangeOnlyInLookup ==
    [][/\ \A r \in RequestIds :
              (req'[r] # req[r] /\ ~req'[r].looked_up) =>
                  /\ CacheCountersUnchanged
                  /\ state'.analysis_cache = state.analysis_cache
       /\ \A r \in RequestIds :
              LooksUp(r) =>
                  /\ req'[r].decided_available /\ req'[r].decided_known
                  /\ \/ /\ state'.cache_hits = state.cache_hits + 1
                        /\ state'.cache_misses = state.cache_misses
                     \/ /\ state'.cache_hits = state.cache_hits
                        /\ state'.cache_misses = state.cache_misses + 1
       /\ CacheCountersUnchanged \/ \E r \in RequestIds : LooksUp(r)]_vars

C37_Witness ==
    \E r, q \in RequestIds :
        /\ ByHeuristic(r) /\ ~req[r].looked_up /\ ~req[r].decided_known
        /\ ByHeuristic(q) /\ ~req[q].looked_up /\ ~req[q].decided_available
        /\ state.cache_hits = 0 /\ state.cache_misses = 0

(***************************************************************************)
(* Recovery                                                                *)
(***************************************************************************)
Healthy == state.ollama_available /\ InSeq("m1", state.available_models)

Decides(r) == ~req[r].decided /\ req'[r].decided

\* C38: once the backend has come back, the service becomes healthy and
\* lists the model; from then on it stays so, and every request decided
\* afterwards goes the backend's way, through the cache lookup.
C38_RecoveryObserved ==
    /\ (scenario = Recovered) ~> Healthy
    /\ [][(scenario = Recovered /\ Healthy) =>
              /\ Healthy'
              /\ \A r \in RequestIds :
                     Decides(r) => /\ req'[r].looked_up
                                   /\ req'[r].engine # "heuristic"]_vars

C38_Witness ==
    /\ scenario = Recovered
    /\ Healthy
    /\ \E r, q \in RequestIds :
           /\ ByHeuristic(q) /\ ~req[q].decided_available
           /\ req[r].decided /\ req[r].looked_up /\ req[r].pc = "done"
           /\ req[r].engine = "backend"

(***************************************************************************)
(* The cache key                                                           *)
(***************************************************************************)
\* what the key is made of
KeyParts(rq) == <<Prefix(rq.text, KeyPrefixLen), rq.app_name, rq.model>>

FromCache(r) == req[r].pc = "done" /\ req[r].looked_up /\ ~req[r].generated

\* C39: requests whose (text prefix, application name, model) differ have
\* different cache keys, and a request answered from the cache gets what a
\* request with the same three parts stored.
C39_KeyInjective ==
    /\ \A r, q \in RequestIds :
           (req[r].looked_up /\ req[q].looked_up
              /\ KeyParts(req[r]) # KeyParts(req[q]))
           => CacheKey(req[r].text, req[r].app_name, req[r].model)
                  # CacheKey(req[q].text, req[q].app_name, req[q].model)
    /\ \A r \in RequestIds :
           FromCache(r) =>
               \E q \in RequestIds :
                   /\ req[q].pc = "done" /\ req[q].generated
                   /\ KeyParts(req[q]) = KeyParts(req[r])

(***************************************************************************)
(* The error rate                                                          *)
(***************************************************************************)
\* C40: the error_rate of GET /health and of GET /stats is between 0 and 1.
C40_ErrorRateWithinUnit ==
    /\ health_check(state).error_rate.num >= 0
    /\ health_check(state).error_rate.num <= health_check(state).error_rate.den
    /\ get_statistics(state).error_rate.num >= 0
    /\ get_statistics(state).error_rate.num <= get_statistics(state).error_rate.den

====
